---------------------------- MODULE Spec2Model ----------------------------
(***************************************************************************)
(* Turn-based tactical game (SzCillard/Game): the simulation substrate     *)
(* (backend/logic.py, backend/board.py, utils/helpers.py), the reversible  *)
(* full-turn planner (ai/planning/action_planning.py) and the search       *)
(* agents built on them.                                                   *)
(*                                                                         *)
(* Numbers.  Movement points and path costs are Python floats rounded to   *)
(* three decimals; here they are integers in units of 10^-6 (Micro), so    *)
(* 1.0 is 1000000 and sqrt(2) is 1414214.  Damage is computed in exact     *)
(* rational arithmetic and floored, which agrees with the float formula    *)
(* on every archetype pair, health and terrain.                            *)
(*                                                                         *)
(* Objects.  Python units are mutable objects shared by reference between  *)
(* the board's unit list and the planner's undo tokens.  gs.heap maps a    *)
(* unit id to the object's fields (also for units no longer listed) and    *)
(* gs.units is the board's list of ids, in list order.                     *)
(***************************************************************************)
EXTENDS Integers, Sequences, FiniteSets, TLC

VARIABLES
    gs,        \* GameState: [tile_map, units, heap]
    stack,     \* undo tokens of the reversible planner, innermost first
    last,      \* the operation the last step performed and its result
    ended,     \* teams whose turn_check_end returned True since their reset
    attacked,  \* units with a successful attack since their team's reset
    exhausted, \* units a move left without usable move points since then
    plan,      \* the planner's episode on a clone, and the real game saved
    steps,     \* number of operations so far
    dq,        \* damage query: inputs and result of calculate_damage
    mcts,      \* MCTS agent: arms, visit counts, value sums, loop position
    mm,        \* minimax agent: root state, decision, reference decision
    tr,        \* NEAT trainer: one eval_genomes call
    ag         \* an agent asked to play a turn: its evaluator, its outcome

vars == <<gs, stack, last, ended, attacked, exhausted, plan, steps, dq, mcts,
          mm, tr, ag>>

-----------------------------------------------------------------------------
(* utils/constants.py *)

PLAIN == 0
HILL == 1
MOUNTAIN == 2
WATER == 3

Micro == 1000 * 1000
SQRT2 == 1414214
EPSILON == 600000
INF == 1000000000
HEALTH_INFLUENCE == 9
DAMAGE_DISPLAY_TIME == 30
None == 0

UnitTypes == {"Swordsman", "Archer", "Horseman", "Spearman"}

UNIT_STATS ==
    [n \in UnitTypes |->
        CASE n = "Swordsman" ->
               [health |-> 110, armor |-> 40, attack_power |-> 50,
                attack_range |-> 1, move_range |-> 2 * Micro]
          [] n = "Archer" ->
               [health |-> 70, armor |-> 15, attack_power |-> 45,
                attack_range |-> 3, move_range |-> 3 * Micro]
          [] n = "Horseman" ->
               [health |-> 100, armor |-> 30, attack_power |-> 50,
                attack_range |-> 1, move_range |-> 4 * Micro]
          [] n = "Spearman" ->
               [health |-> 115, armor |-> 35, attack_power |-> 50,
                attack_range |-> 1, move_range |-> 2 * Micro]]

\* EFFECTIVENESS[attacker][defender], in tenths; a missing pair is 1.0
EFFECTIVENESS(a, d) ==
    CASE a = "Archer" /\ d = "Horseman" -> 8
      [] a = "Horseman" /\ d = "Archer" -> 13
      [] a = "Horseman" /\ d = "Swordsman" -> 11
      [] a = "Horseman" /\ d = "Spearman" -> 8
      [] a = "Spearman" /\ d = "Swordsman" -> 9
      [] a = "Spearman" /\ d = "Horseman" -> 13
      [] OTHER -> 10

\* in tenths
TERRAIN_DEFENSE_BONUS(t) ==
    CASE t = HILL -> 2 [] t = WATER -> 1 [] OTHER -> 0

\* in tenths
TERRAIN_ATTACK_BONUS(t) ==
    CASE t = HILL -> 1 [] t = WATER -> -1 [] OTHER -> 0

\* 9999 marks a mountain as impassable
TERRAIN_MOVE_COST(t) ==
    CASE t = PLAIN -> 1 [] t = HILL -> 2 [] t = MOUNTAIN -> 9999 [] OTHER -> 2

DIRS == << <<1, 0>>, <<-1, 0>>, <<0, 1>>, <<0, -1>>,
           <<1, 1>>, <<-1, -1>>, <<1, -1>>, <<-1, 1>> >>

-----------------------------------------------------------------------------
(* generic helpers *)

Max(a, b) == IF a >= b THEN a ELSE b
Min(a, b) == IF a <= b THEN a ELSE b
Abs(a) == IF a < 0 THEN -a ELSE a
Range(s) == {s[i] : i \in DOMAIN s}

\* Python's round(v, 3) for v >= 0, on integers in units of 10^-6
Round3(v) == ((v + 500) \div 1000) * 1000

manhattan(x1, y1, x2, y2) == Abs(x1 - x2) + Abs(y1 - y2)

-----------------------------------------------------------------------------
(* backend/board.py: GameState *)

width(g) == Len(g.tile_map[1])
height(g) == Len(g.tile_map)

in_bounds(g, x, y) == 0 <= x /\ x < width(g) /\ 0 <= y /\ y < height(g)

tile(g, x, y) == g.tile_map[y + 1][x + 1]

move_cost(g, x, y) == TERRAIN_MOVE_COST(tile(g, x, y))

\* the first listed unit on the tile, or None
get_unit_at(g, x, y) ==
    LET hits == {i \in DOMAIN g.units :
                    g.heap[g.units[i]].x = x /\ g.heap[g.units[i]].y = y}
    IN  IF hits = {} THEN None
        ELSE g.units[CHOOSE i \in hits : \A j \in hits : i <= j]

\* the listed unit with that id, or None
get_unit_by_id(g, id) == IF id \in Range(g.units) THEN id ELSE None

remove_dead_strict(g) ==
    [g EXCEPT !.units = SelectSeq(g.units, LAMBDA u : g.heap[u].health >= 0)]

remove_dead(g) ==
    [g EXCEPT !.units = SelectSeq(g.units, LAMBDA u : g.heap[u].health > 0)]


-----------------------------------------------------------------------------
(* utils/helpers.py: compute_min_cost_gs (uniform-cost search) *)

Idx(g, x, y) == y * width(g) + x + 1

RECURSIVE Fill(_, _)
Fill(n, v) == IF n = 0 THEN <<>> ELSE Append(Fill(n - 1, v), v)

\* a variant of the loop over DIRS that prices a diagonal step as a
\* straight one
RECURSIVE relax_flat(_, _, _, _, _, _)
relax_flat(g, goal, best, x, y, d) ==
    IF d > Len(DIRS) THEN best
    ELSE
      LET nx == x + DIRS[d][1]
          ny == y + DIRS[d][2]
          skip == \/ ~in_bounds(g, nx, ny)
                  \/ tile(g, nx, ny) = MOUNTAIN
                  \/ (get_unit_at(g, nx, ny) # None /\ <<nx, ny>> # goal)
          nc == best[Idx(g, x, y)] + move_cost(g, nx, ny) * Micro
          relaxed == IF skip THEN best
                     ELSE IF nc < best[Idx(g, nx, ny)]
                             THEN [best EXCEPT ![Idx(g, nx, ny)] = nc]
                             ELSE best
      IN  CHOOSE r \in {relax_flat(g, goal, b, x, y, d + 1) :
                           b \in {relaxed}} : TRUE

\* the loop over DIRS from direction d on, for the popped tile (x, y);
\* the table is handed on as a value (CHOOSE over a one-element set)
RECURSIVE relax(_, _, _, _, _, _)
relax(g, goal, best, x, y, d) ==
    IF d > Len(DIRS) THEN best
    ELSE
      LET dx == DIRS[d][1]
          dy == DIRS[d][2]
          nx == x + dx
          ny == y + dy
          skip == \/ ~in_bounds(g, nx, ny)
                  \/ tile(g, nx, ny) = MOUNTAIN
                  \/ (get_unit_at(g, nx, ny) # None /\ <<nx, ny>> # goal)
          step_cost == IF dx # 0 /\ dy # 0
                          THEN move_cost(g, nx, ny) * SQRT2
                          ELSE move_cost(g, nx, ny) * Micro
          nc == best[Idx(g, x, y)] + step_cost
          relaxed == IF skip THEN best
                     ELSE IF nc < best[Idx(g, nx, ny)]
                             THEN [best EXCEPT ![Idx(g, nx, ny)] = nc]
                             ELSE best
      IN  CHOOSE r \in {relax(g, goal, b, x, y, d + 1) : b \in {relaxed}} :
             TRUE

\* pop the cheapest open tile; return at the goal, else expand it
RECURSIVE search(_, _, _, _)
search(g, goal, best, done) ==
    LET open == {k \in DOMAIN best : k \notin done /\ best[k] < INF}
    IN  IF open = {} THEN INF
        ELSE
          LET k == CHOOSE i \in open : \A j \in open : best[i] <= best[j]
              x == (k - 1) % width(g)
              y == (k - 1) \div width(g)
          IN  IF <<x, y>> = goal THEN best[k]
              ELSE CHOOSE r \in {search(g, goal, b, done \cup {k}) :
                                    b \in {relax(g, goal, best, x, y, 1)}} :
                      TRUE

compute_min_cost_gs(g, start, goal) ==
    IF start = goal THEN 0
    ELSE CHOOSE r \in {search(g, goal, b, {}) :
                          b \in {[Fill(width(g) * height(g), INF)
                                     EXCEPT ![Idx(g, start[1], start[2])]
                                               = 0]}} : TRUE

-----------------------------------------------------------------------------
(* utils/helpers.py: calculate_damage *)

\* int(power * health_factor * reduction * type_mult * terrain_mult) with
\*   health_factor = (1 - 0.9) + 0.9 * health / max_hp
\*   reduction     = 100 / (100 + 10 * armor)
\*   terrain_mult  = (1 + atk_bonus) * (1 - def_bonus)
\* as one exact quotient.  att and def are unit objects; a call without a
\* game state has both bonuses 0.0, which is the PLAIN tile's bonus.
final_damage(att, def, atk_tile, def_tile) ==
    LET sa == UNIT_STATS[att.name]
        sd == UNIT_STATS[def.name]
        num == sa.attack_power
               * ((10 - HEALTH_INFLUENCE) * sa.health
                   + HEALTH_INFLUENCE * att.health)
               * EFFECTIVENESS(att.name, def.name)
               * (10 + TERRAIN_ATTACK_BONUS(atk_tile))
               * (10 - TERRAIN_DEFENSE_BONUS(def_tile))
        den == sa.health * (10 + sd.armor) * 1000
    IN  num \div den

calculate_damage_nofloor(att, def, atk_tile, def_tile) ==
    final_damage(att, def, atk_tile, def_tile)

calculate_damage(att, def, atk_tile, def_tile) ==
    Max(1, final_damage(att, def, atk_tile, def_tile))

-----------------------------------------------------------------------------
(* backend/logic.py: GameLogic.  Every mutating method returns            *)
(* [ok |-> its return value, g |-> the game state after the call].         *)

can_move_nooccupancy(g, u, to_x, to_y) ==
    /\ in_bounds(g, to_x, to_y)
    /\ tile(g, to_x, to_y) # MOUNTAIN
    /\ ~g.heap[u].has_attacked
    /\ compute_min_cost_gs(g, <<g.heap[u].x, g.heap[u].y>>, <<to_x, to_y>>)
          <= g.heap[u].move_points

can_move(g, u, to_x, to_y) ==
    /\ in_bounds(g, to_x, to_y)
    /\ get_unit_at(g, to_x, to_y) = None
    /\ tile(g, to_x, to_y) # MOUNTAIN
    /\ ~g.heap[u].has_attacked
    /\ compute_min_cost_gs(g, <<g.heap[u].x, g.heap[u].y>>, <<to_x, to_y>>)
          <= g.heap[u].move_points

\* a variant that relocates the unit before it validates the move
move_unit_eager(g, u, to_x, to_y) ==
    [ok |-> can_move(g, u, to_x, to_y),
     g |-> IF in_bounds(g, to_x, to_y)
              THEN [g EXCEPT !.heap[u].x = to_x, !.heap[u].y = to_y]
              ELSE g]

\* a variant that relocates the unit at no cost
move_unit_free(g, u, to_x, to_y) ==
    IF ~can_move(g, u, to_x, to_y) THEN [ok |-> FALSE, g |-> g]
    ELSE [ok |-> TRUE,
          g |-> [g EXCEPT !.heap[u].x = to_x, !.heap[u].y = to_y]]

\* a variant that leaves has_acted alone
move_unit_keeps_flag(g, u, to_x, to_y) ==
    IF ~can_move(g, u, to_x, to_y) THEN [ok |-> FALSE, g |-> g]
    ELSE
      LET spend(cost) ==
            IF cost > g.heap[u].move_points THEN [ok |-> FALSE, g |-> g]
            ELSE
              [ok |-> TRUE,
               g |-> [g EXCEPT
                        !.heap[u].x = to_x,
                        !.heap[u].y = to_y,
                        !.heap[u].move_points = Max(0, Round3(@ - cost))]]
      IN  spend(compute_min_cost_gs(g, <<g.heap[u].x, g.heap[u].y>>,
                                    <<to_x, to_y>>))

move_unit(g, u, to_x, to_y) ==
    IF ~can_move(g, u, to_x, to_y) THEN [ok |-> FALSE, g |-> g]
    ELSE
      LET spend(cost) ==
            IF cost > g.heap[u].move_points THEN [ok |-> FALSE, g |-> g]
            ELSE
              [ok |-> TRUE,
               g |-> [g EXCEPT
                        !.heap[u].x = to_x,
                        !.heap[u].y = to_y,
                        !.heap[u].move_points = Max(0, Round3(@ - cost)),
                        !.heap[u].has_acted =
                            IF Max(0, Round3(g.heap[u].move_points - cost))
                                 <= EPSILON
                               THEN TRUE ELSE @]]
      IN  spend(compute_min_cost_gs(g, <<g.heap[u].x, g.heap[u].y>>,
                                    <<to_x, to_y>>))

\* a variant without the range check
can_attack_any_distance(g, a, d) ==
    g.heap[a].team # g.heap[d].team

\* a variant that lets every unit reach no further than the next tile
can_attack_adjacent(g, a, d) ==
    /\ g.heap[a].team # g.heap[d].team
    /\ manhattan(g.heap[a].x, g.heap[a].y, g.heap[d].x, g.heap[d].y) <= 1

can_attack(g, a, d) ==
    /\ g.heap[a].team # g.heap[d].team
    /\ manhattan(g.heap[a].x, g.heap[a].y, g.heap[d].x, g.heap[d].y)
          <= Max(1, UNIT_STATS[g.heap[a].name].attack_range)

\* a variant in which the defender strikes back at any attacker
attack_effect_any_range(g, a, d) ==
    LET dmg == calculate_damage(g.heap[a], g.heap[d],
                                tile(g, g.heap[a].x, g.heap[a].y),
                                tile(g, g.heap[d].x, g.heap[d].y))
        g1 == [g EXCEPT !.heap[d].last_damage = dmg,
                        !.heap[d].damage_timer = DAMAGE_DISPLAY_TIME,
                        !.heap[d].health = @ - dmg]
        g2 == IF g1.heap[d].health > 0
                 THEN [g1 EXCEPT !.heap[a].health =
                          @ - calculate_damage(g1.heap[d], g1.heap[a],
                                               PLAIN, PLAIN)]
                 ELSE g1
    IN  remove_dead([g2 EXCEPT !.heap[a].has_attacked = TRUE,
                               !.heap[a].move_points = 0])

\* the body of apply_attack after its validation
attack_effect(g, a, d) ==
    LET dmg == calculate_damage(g.heap[a], g.heap[d],
                                tile(g, g.heap[a].x, g.heap[a].y),
                                tile(g, g.heap[d].x, g.heap[d].y))
        g1 == [g EXCEPT !.heap[d].last_damage = dmg,
                        !.heap[d].damage_timer = DAMAGE_DISPLAY_TIME,
                        !.heap[d].health = @ - dmg]
        g2 == IF UNIT_STATS[g.heap[a].name].attack_range > 1 THEN g1
              ELSE IF g1.heap[d].health > 0
                   THEN [g1 EXCEPT !.heap[a].health =
                            @ - calculate_damage(g1.heap[d], g1.heap[a],
                                                 PLAIN, PLAIN)]
                   ELSE g1
    IN  remove_dead([g2 EXCEPT !.heap[a].has_attacked = TRUE,
                               !.heap[a].move_points = 0])

apply_attack_nocheck(g, a, d) ==
    IF ~can_attack(g, a, d) THEN [ok |-> FALSE, g |-> g]
    ELSE [ok |-> TRUE, g |-> attack_effect(g, a, d)]

apply_attack(g, a, d) ==
    IF g.heap[a].has_attacked \/ ~can_attack(g, a, d)
       THEN [ok |-> FALSE, g |-> g]
       ELSE [ok |-> TRUE, g |-> attack_effect(g, a, d)]

\* a variant that also restores the health of the team's units
turn_begin_reset_rested(g, team) ==
    [g EXCEPT !.heap =
        [u \in DOMAIN g.heap |->
            IF u \in Range(g.units) /\ g.heap[u].team = team
               THEN [g.heap[u] EXCEPT
                        !.move_points = UNIT_STATS[g.heap[u].name].move_range,
                        !.health = UNIT_STATS[g.heap[u].name].health,
                        !.has_attacked = FALSE,
                        !.has_acted = FALSE]
               ELSE g.heap[u]]]

turn_begin_reset_all(g, team) ==
    [g EXCEPT !.heap =
        [u \in DOMAIN g.heap |->
            IF u \in Range(g.units)
               THEN [g.heap[u] EXCEPT
                        !.move_points = UNIT_STATS[g.heap[u].name].move_range,
                        !.has_attacked = FALSE,
                        !.has_acted = FALSE]
               ELSE g.heap[u]]]

turn_begin_reset(g, team) ==
    [g EXCEPT !.heap =
        [u \in DOMAIN g.heap |->
            IF u \in Range(g.units) /\ g.heap[u].team = team
               THEN [g.heap[u] EXCEPT
                        !.move_points = UNIT_STATS[g.heap[u].name].move_range,
                        !.has_attacked = FALSE,
                        !.has_acted = FALSE]
               ELSE g.heap[u]]]

\* a variant that marks the exhausted units of both teams
turn_check_end_marks_all(g, team) ==
    LET units == {u \in Range(g.units) : g.heap[u].team = team}
        g1 == [g EXCEPT !.heap =
                 [u \in DOMAIN g.heap |->
                     IF u \in Range(g.units) /\ g.heap[u].move_points <= EPSILON
                        THEN [g.heap[u] EXCEPT !.has_acted = TRUE]
                        ELSE g.heap[u]]]
    IN  [ok |-> \A u \in units : g1.heap[u].has_acted, g |-> g1]

turn_check_end(g, team) ==
    LET units == {u \in Range(g.units) : g.heap[u].team = team}
        g1 == [g EXCEPT !.heap =
                 [u \in DOMAIN g.heap |->
                     IF u \in units /\ g.heap[u].move_points <= EPSILON
                        THEN [g.heap[u] EXCEPT !.has_acted = TRUE]
                        ELSE g.heap[u]]]
    IN  [ok |-> \A u \in units : g1.heap[u].has_acted, g |-> g1]

is_game_over(g) ==
    LET teams == {g.heap[u].team : u \in Range(g.units)}
    IN  ~(1 \in teams /\ 2 \in teams)

\* get_winner() of a game that is still going on (Python's None)
Ongoing == -1

\* 1 or 2: the team that is left, 0: a draw
get_winner(g) ==
    LET teams == {g.heap[u].team : u \in Range(g.units)}
    IN  IF 1 \in teams /\ 2 \in teams THEN Ongoing
        ELSE IF 1 \notin teams /\ 2 \notin teams THEN 0
        ELSE IF 1 \in teams THEN 1 ELSE 2


\* every tile, in the order of "for x in range(width): for y in range(height)"
all_tiles(g) ==
    [k \in 1..(width(g) * height(g)) |->
        <<(k - 1) \div height(g), (k - 1) % height(g)>>]

get_movable_tiles(g, u) ==
    SelectSeq(all_tiles(g), LAMBDA t : can_move(g, u, t[1], t[2]))

\* the tiles of the listed units the unit can attack, in list order
get_attackable_tiles(g, u) ==
    LET targets == SelectSeq(g.units, LAMBDA t : can_attack(g, u, t))
    IN  [i \in 1..Len(targets) |->
            <<g.heap[targets[i]].x, g.heap[targets[i]].y>>]

\* An action is [unit_id, type, target]; the target is <<x, y>> for a move,
\* <<defender id>> for an attack and <<>> (None) for a wait.
unit_actions(g, u) ==
    LET moves(tiles) ==
            [i \in 1..Len(tiles) |->
                [unit_id |-> u, type |-> "move", target |-> tiles[i]]]
        attacks(hits) ==
            [i \in 1..Len(hits) |->
                [unit_id |-> u, type |-> "attack",
                 target |-> <<get_unit_at(g, hits[i][1], hits[i][2])>>]]
    IN  moves(get_movable_tiles(g, u))
          \o attacks(SelectSeq(get_attackable_tiles(g, u),
                               LAMBDA t : get_unit_at(g, t[1], t[2]) # None))
          \o <<[unit_id |-> u, type |-> "wait", target |-> <<>>]>>

RECURSIVE actions_from(_, _, _)
actions_from(g, units, i) ==
    IF i > Len(units) THEN <<>>
    ELSE unit_actions(g, units[i]) \o actions_from(g, units, i + 1)

\* a variant that also lists the units without move points left
get_legal_actions_anymp(g, team) ==
    actions_from(g,
                 SelectSeq(g.units,
                           LAMBDA u : /\ g.heap[u].team = team
                                      /\ ~g.heap[u].has_acted),
                 1)

get_legal_actions(g, team) ==
    actions_from(g,
                 SelectSeq(g.units,
                           LAMBDA u : /\ g.heap[u].team = team
                                      /\ ~g.heap[u].has_acted
                                      /\ g.heap[u].move_points > EPSILON),
                 1)

\* GameLogic.apply_action: look the acting unit (and an attack's target) up
\* by id and dispatch on the action's type; a wait marks the unit as acted.
apply_action(g, act) ==
    LET u == get_unit_by_id(g, act.unit_id)
    IN  IF u = None THEN [ok |-> FALSE, g |-> g]
        ELSE IF act.type = "move"
                THEN move_unit(g, u, act.target[1], act.target[2])
        ELSE IF act.type = "attack"
                THEN IF get_unit_by_id(g, act.target[1]) = None
                        THEN [ok |-> FALSE, g |-> g]
                        ELSE apply_attack(g, u, act.target[1])
        ELSE IF act.type = "wait"
                THEN [ok |-> TRUE, g |-> [g EXCEPT !.heap[u].has_acted = TRUE]]
        ELSE [ok |-> FALSE, g |-> g]

update_damage_timers(g) ==
    [g EXCEPT !.heap =
        [u \in DOMAIN g.heap |->
            IF u \in Range(g.units) /\ g.heap[u].damage_timer > 0
               THEN LET t == Max(0, g.heap[u].damage_timer - 1)
                    IN  [g.heap[u] EXCEPT
                            !.damage_timer = t,
                            !.last_damage = IF t = 0 THEN 0 ELSE @]
               ELSE g.heap[u]]]

start_turn(g, team) == update_damage_timers(turn_begin_reset(g, team))

-----------------------------------------------------------------------------
(* ai/planning/action_planning.py: ActionPlannerReversible                 *)
(* A token is [unit_states, units_list]; a unit state is                   *)
(* [unit, kind, x, y, move_points, health, has_attacked, has_acted], where *)
(* kind "move" stands for the 4-tuple (x, y, move_points, has_acted) and   *)
(* kind "attack" for the 5-tuple (x, y, health, has_attacked, has_acted).  *)

saved_state(g, u, kind) ==
    [unit |-> u, kind |-> kind, x |-> g.heap[u].x, y |-> g.heap[u].y,
     move_points |-> g.heap[u].move_points, health |-> g.heap[u].health,
     has_attacked |-> g.heap[u].has_attacked,
     has_acted |-> g.heap[u].has_acted]

\* [ok, token, g]; token is <<>> for the (False, None) returns
apply_action_reversible(g, act) ==
    LET u == get_unit_by_id(g, act.unit_id)
        d == IF act.type = "attack"
                THEN get_unit_by_id(g, act.target[1]) ELSE None
        restore == [unit_states |->
                      IF act.type = "move"
                         THEN <<saved_state(g, u, "move")>>
                      ELSE IF act.type = "attack"
                         THEN <<saved_state(g, u, "attack"),
                                saved_state(g, d, "attack")>>
                      ELSE <<>>,
                    units_list |-> g.units]
        applied(r) == [ok |-> r.ok, token |-> <<restore>>, g |-> r.g]
    IN  IF act.type = "move" /\ u = None
           THEN [ok |-> FALSE, token |-> <<>>, g |-> g]
        ELSE IF act.type = "attack" /\ (u = None \/ d = None)
           THEN [ok |-> FALSE, token |-> <<>>, g |-> g]
        ELSE applied(apply_action(g, act))

restore_unit(obj, st) ==
    IF st.kind = "move"
       THEN [obj EXCEPT !.x = st.x, !.y = st.y,
                        !.move_points = st.move_points,
                        !.has_acted = st.has_acted]
       ELSE [obj EXCEPT !.x = st.x, !.y = st.y, !.health = st.health,
                        !.has_attacked = st.has_attacked,
                        !.has_acted = st.has_acted]

RECURSIVE restore_units(_, _, _)
restore_units(heap, states, i) ==
    IF i > Len(states) THEN heap
    ELSE restore_units(
            [heap EXCEPT ![states[i].unit] = restore_unit(@, states[i])],
            states, i + 1)

\* a variant that restores the attributes but keeps the current unit list
undo_attributes_only(g, token) ==
    [g EXCEPT !.heap = restore_units(g.heap, token.unit_states, 1)]

undo(g, token) ==
    [g EXCEPT !.heap = restore_units(g.heap, token.unit_states, 1),
              !.units = token.units_list]


-----------------------------------------------------------------------------
(* One simulation instance as a state machine.  In play the real game is   *)
(* driven as the UI and the agents drive it: actions through               *)
(* GameAPI.apply_action, turn resets, turn-end checks.  A planning episode *)
(* works on a clone of the board (plan_sequences: fast_clone, start_turn), *)
(* on which the reversible planner applies and undoes the planning team's  *)
(* actions and checks for the turn's end; the clone is dropped at the end. *)
(* A stack entry holds the token together with what the board was before   *)
(* the action: its unit list and every unit's health.                      *)
(* History variables: ended[t] is the stack depth at which turn_check_end  *)
(* first returned True for team t since its last reset; exhausted holds    *)
(* the units whose last move, not undone since, left them with at most     *)
(* EPSILON move points, until their team's reset; attacked holds the       *)
(* units whose attack succeeded since their team's last reset; plan.start  *)
(* is the clone at the start of the planned turn and plan.clean tells that *)
(* nothing but the planner's apply and undo has changed the clone since.   *)

MaxSteps == 4
MaxStack == 2

NoDamageQuery == [phase |-> "off"]
NoMcts == [phase |-> "off"]
NoMinimax == [phase |-> "off"]
NoTrainer == [phase |-> "off"]
NoAgent == [phase |-> "off"]
NoPlan == [active |-> FALSE, phase |-> "off"]
NoCheck == 0 - 1

new_unit(id, name, team, x, y, health) ==
    [id |-> id, name |-> name, team |-> team, x |-> x, y |-> y,
     health |-> health, move_points |-> UNIT_STATS[name].move_range,
     has_attacked |-> FALSE, has_acted |-> FALSE,
     last_damage |-> 0, damage_timer |-> 0]

MixedMap == << <<PLAIN, HILL, WATER>>,
               <<HILL, PLAIN, MOUNTAIN>>,
               <<WATER, HILL, PLAIN>> >>

\* Boards at the start of a round: a Swordsman (1) and an Archer (2) of
\* team 1 against a Spearman (3) of team 2 standing on a hill next to the
\* Swordsman; either the Swordsman or the Spearman is nearly dead.
InitHealths == {<<8, UNIT_STATS["Spearman"].health>>,
                <<UNIT_STATS["Swordsman"].health, 8>>}

InitBoards ==
    {[tile_map |-> MixedMap,
      units |-> <<1, 2, 3>>,
      heap |-> <<new_unit(1, "Swordsman", 1, 0, 0, h[1]),
                 new_unit(2, "Archer", 1, 2, 2, UNIT_STATS["Archer"].health),
                 new_unit(3, "Spearman", 2, 1, 0, h[2])>>] :
        h \in InitHealths}

UnitIds == 1..3
Teams == {1, 2}

\* the actions a caller may request: any unit, any tile of the board and of
\* one column beyond it, any target unit
Requests(g) ==
    {[unit_id |-> u, type |-> "move", target |-> <<x, y>>] :
        u \in UnitIds, x \in 0..width(g), y \in 0..(height(g) - 1)}
    \cup {[unit_id |-> u, type |-> "attack", target |-> <<d>>] :
        u \in UnitIds, d \in UnitIds}
    \cup {[unit_id |-> u, type |-> "wait", target |-> <<>>] : u \in UnitIds}

Init ==
    /\ gs \in InitBoards
    /\ stack = <<>>
    /\ last = [op |-> "init", ok |-> TRUE]
    /\ ended = [t \in Teams |-> NoCheck]
    /\ attacked = {}
    /\ exhausted = {}
    /\ plan = NoPlan
    /\ steps = 0
    /\ tr = NoTrainer
    /\ ag = NoAgent
    /\ dq = NoDamageQuery
    /\ mcts = NoMcts
    /\ mm = NoMinimax

\* GameAPI.apply_action on the real game
Apply ==
    /\ ~plan.active
    /\ steps < MaxSteps
    /\ \E act \in Requests(gs) :
         LET r == apply_action(gs, act)
         IN  /\ gs' = r.g
             /\ last' = [op |-> act.type, ok |-> r.ok]
             /\ attacked' = IF act.type = "attack" /\ r.ok
                               THEN attacked \cup {act.unit_id} ELSE attacked
             /\ exhausted' = IF /\ act.type = "move"
                                 /\ r.ok
                                 /\ r.g.heap[act.unit_id].move_points
                                      <= EPSILON
                                THEN exhausted \cup {act.unit_id}
                                ELSE exhausted
    /\ steps' = steps + 1
    /\ UNCHANGED <<stack, ended, plan, dq, mcts, mm, tr, ag>>

TurnBeginReset ==
    /\ ~plan.active
    /\ steps < MaxSteps
    /\ \E team \in Teams :
         /\ gs' = turn_begin_reset(gs, team)
         /\ ended' = [ended EXCEPT ![team] = NoCheck]
         /\ attacked' = {u \in attacked :
                            ~(u \in Range(gs.units) /\ gs.heap[u].team = team)}
         /\ exhausted' = {u \in exhausted :
                             ~(u \in Range(gs.units) /\ gs.heap[u].team = team)}
    /\ last' = [op |-> "reset", ok |-> TRUE]
    /\ steps' = steps + 1
    /\ UNCHANGED <<stack, plan, dq, mcts, mm, tr, ag>>

\* turn_check_end, on the real game for either team and on the planner's
\* clone for the planning team (_dfs)
TurnCheckEnd ==
    /\ steps < MaxSteps
    /\ \E team \in Teams :
         LET r == turn_check_end(gs, team)
         IN  /\ plan.active => team = plan.team
             /\ gs' = r.g
             /\ last' = [op |-> "check", ok |-> r.ok, team |-> team]
             /\ ended' = IF r.ok /\ ended[team] = NoCheck
                            THEN [ended EXCEPT ![team] = Len(stack)]
                            ELSE ended
             /\ plan' = IF plan.active /\ r.g # gs
                          THEN [plan EXCEPT !.clean = FALSE] ELSE plan
    /\ steps' = steps + 1
    /\ UNCHANGED <<stack, attacked, exhausted, dq, mcts, mm, tr, ag>>

\* plan_sequences: SimulationAPI(game_board.fast_clone()), start_turn(team)
PlanStart ==
    /\ ~plan.active
    /\ steps < MaxSteps
    /\ \E team \in Teams :
         /\ plan' = [active |-> TRUE, team |-> team,
                     start |-> start_turn(gs, team), clean |-> TRUE,
                     real |-> [gs |-> gs, ended |-> ended,
                               attacked |-> attacked,
                               exhausted |-> exhausted]]
         /\ gs' = start_turn(gs, team)
         /\ ended' = [ended EXCEPT ![team] = NoCheck]
         /\ attacked' = {u \in attacked :
                            ~(u \in Range(gs.units) /\ gs.heap[u].team = team)}
         /\ exhausted' = {u \in exhausted :
                             ~(u \in Range(gs.units) /\ gs.heap[u].team = team)}
    /\ last' = [op |-> "plan", ok |-> TRUE]
    /\ steps' = steps + 1
    /\ UNCHANGED <<stack, dq, mcts, mm, tr, ag>>

\* _dfs: _apply_action_reversible of an action of the planning team; the
\* token is kept only when the action succeeded
RevApply ==
    /\ plan.active
    /\ steps < MaxSteps
    /\ Len(stack) < MaxStack
    /\ \E act \in Requests(gs) :
         LET r == apply_action_reversible(gs, act)
         IN  /\ gs.heap[act.unit_id].team = plan.team
             /\ gs' = r.g
             /\ last' = [op |-> act.type, ok |-> r.ok]
             /\ stack' = IF r.ok
                            THEN <<[token |-> r.token[1], type |-> act.type,
                                    unit |-> act.unit_id,
                                    units |-> gs.units,
                                    health |-> [u \in UnitIds |->
                                                  gs.heap[u].health]]>>
                                   \o stack
                            ELSE stack
             /\ attacked' = IF act.type = "attack" /\ r.ok
                               THEN attacked \cup {act.unit_id} ELSE attacked
             /\ exhausted' = IF /\ act.type = "move"
                                 /\ r.ok
                                 /\ r.g.heap[act.unit_id].move_points
                                      <= EPSILON
                                THEN exhausted \cup {act.unit_id}
                                ELSE exhausted
    /\ steps' = steps + 1
    /\ UNCHANGED <<ended, plan, dq, mcts, mm, tr, ag>>

\* _dfs: _undo of the innermost token
Undo ==
    /\ plan.active
    /\ stack # <<>>
    /\ gs' = undo(gs, Head(stack).token)
    /\ stack' = Tail(stack)
    /\ last' = [op |-> "undo", ok |-> TRUE]
    /\ ended' = [t \in Teams |->
                    IF ended[t] > Len(stack) - 1 THEN NoCheck ELSE ended[t]]
    /\ attacked' = IF Head(stack).type = "attack"
                      THEN attacked \ {Head(stack).unit} ELSE attacked
    /\ exhausted' = IF Head(stack).type = "move"
                       THEN exhausted \ {Head(stack).unit} ELSE exhausted
    /\ UNCHANGED <<plan, steps, dq, mcts, mm, tr, ag>>

\* the planner returns: its clone is dropped and the real game goes on
PlanEnd ==
    /\ plan.active
    /\ stack = <<>>
    /\ gs' = plan.real.gs
    /\ ended' = plan.real.ended
    /\ attacked' = plan.real.attacked
    /\ exhausted' = plan.real.exhausted
    /\ plan' = NoPlan
    /\ last' = [op |-> "planned", ok |-> TRUE]
    /\ UNCHANGED <<stack, steps, dq, mcts, mm, tr, ag>>

Next ==
    \/ Apply
    \/ TurnBeginReset
    \/ TurnCheckEnd
    \/ PlanStart
    \/ RevApply
    \/ Undo
    \/ PlanEnd

Spec == Init /\ [][Next]_vars

-----------------------------------------------------------------------------
(* Properties of one simulation instance (Spec) *)

Listed(g) == Range(g.units)

\* the board as the planner's contract sees it: the unit list and every
\* listed unit's position, health and per-turn state
Board(g) ==
    [units |-> g.units,
     state |-> [i \in DOMAIN g.units |->
                  [x |-> g.heap[g.units[i]].x,
                   y |-> g.heap[g.units[i]].y,
                   health |-> g.heap[g.units[i]].health,
                   move_points |-> g.heap[g.units[i]].move_points,
                   has_attacked |-> g.heap[g.units[i]].has_attacked,
                   has_acted |-> g.heap[g.units[i]].has_acted]]]

\* C1 -- Undo round trip: whenever the reversible planner has undone, in
\* reverse order, every token of the actions it applied successfully since
\* the start of the planned turn, the board is identical to the board at
\* the start of that turn: same unit list and, for every unit, the same
\* position, health, move_points, has_attacked and has_acted.
C1_UndoRoundTrip ==
    (plan.active /\ plan.clean /\ stack = <<>>)
        => Board(gs) = Board(plan.start)

\* C2 -- Failed apply is a no-op: whenever a move or an attack returns
\* False, the game state after the call equals the state before it (no
\* field of any unit and not the unit list has changed).
C2_FailedApplyNoOp ==
    [][(last'.op \in {"move", "attack"} /\ ~last'.ok) => gs' = gs]_vars

C2_Witness ==
    /\ last.op \in {"move", "attack"}
    /\ ~last.ok
    /\ steps >= 2

\* C3 -- Legal-action soundness: in every reachable state and for each
\* team, every action returned by get_legal_actions(team) returns True
\* when applied to that same state.
C3_LegalActionsSucceed ==
    \A team \in Teams :
        \A act \in Range(get_legal_actions(gs, team)) :
            apply_action(gs, act).ok

C3_Witness ==
    /\ steps >= 2
    /\ \E act \in Range(get_legal_actions(gs, 1)) : act.type = "attack"
    /\ \E act \in Range(get_legal_actions(gs, 1)) : act.type = "move"
    /\ \E u \in Listed(gs) : gs.heap[u].team = 1 /\ gs.heap[u].has_attacked

\* C4 -- Turn-end monotonicity: once turn_check_end(team) has returned
\* True, turn_check_end(team) returns True in every later state, whatever
\* either team does in between, until turn_begin_reset(team) is called.
C4_TurnEndMonotone ==
    \A team \in Teams :
        ended[team] # NoCheck => turn_check_end(gs, team).ok

C4_Witness ==
    /\ ended[2] # NoCheck
    /\ last.op \in {"move", "attack"}
    /\ last.ok
    /\ \E u \in Listed(gs) : gs.heap[u].team = 2

\* C5 -- One unit per tile: after any sequence of successful or failed
\* moves, attacks and waits, turn resets, turn-end checks and nested
\* reversible apply/undo pairs, no two listed units occupy the same tile.
C5_OneUnitPerTile ==
    \A i, j \in DOMAIN gs.units :
        (i # j) =>
            <<gs.heap[gs.units[i]].x, gs.heap[gs.units[i]].y>>
              # <<gs.heap[gs.units[j]].x, gs.heap[gs.units[j]].y>>

C5_Witness ==
    /\ plan.active
    /\ last.op = "undo"
    /\ Len(stack) = 1
    /\ stack[1].type = "move"
    /\ Len(gs.units) = 3

\* C6 -- No second action after attacking: once a unit's attack has
\* succeeded, every move and every attack by that unit fails until
\* turn_begin_reset is called for its team.
C6_NoActionAfterAttack ==
    \A u \in attacked :
        /\ \A x \in 0..(width(gs) - 1), y \in 0..(height(gs) - 1) :
              ~move_unit(gs, u, x, y).ok
        /\ \A d \in UnitIds : ~apply_attack(gs, u, d).ok

C6_Witness ==
    /\ \E u \in attacked : u \in Listed(gs) /\ gs.heap[u].health > 0
    /\ last.op = "move"
    /\ ~last.ok

\* C7 -- No corpses: no unit with health <= 0 is on the board; a unit
\* whose health reaches 0 or below in an attack (the defender, or the
\* attacker through retaliation) leaves the unit list in that same call.
C7_NoCorpses ==
    \A u \in Listed(gs) : gs.heap[u].health > 0

C7_Witness ==
    /\ last.op = "attack"
    /\ last.ok
    /\ Len(gs.units) < 3
    /\ \E u \in UnitIds : u \notin Listed(gs) /\ gs.heap[u].health = 0

\* C11 -- Revival on undo: when _undo takes back an attack that was applied
\* through _apply_action_reversible (also one that removed the defender, or
\* the attacker by retaliation), the unit list after the undo holds the same
\* units in the same order as before the attack, each with its pre-attack
\* health, so the unit counts before the apply and after the undo are equal.
C11_RevivalOnUndo ==
    [][(/\ plan.active
        /\ stack # <<>>
        /\ stack' = Tail(stack)
        /\ Head(stack).type = "attack")
          => /\ gs'.units = Head(stack).units
             /\ Len(gs'.units) = Len(Head(stack).units)
             /\ \A u \in Range(gs'.units) :
                   gs'.heap[u].health = Head(stack).health[u]]_vars

\* an undo has just revived a unit that a lethal hit had removed
C11_Witness ==
    /\ plan.active
    /\ last.op = "undo"
    /\ stack = <<>>
    /\ Len(gs.units) = 3
    /\ \E u \in Listed(gs) :
          /\ gs.heap[u].damage_timer = DAMAGE_DISPLAY_TIME
          /\ gs.heap[u].last_damage >= gs.heap[u].health

\* C12 -- Turn-end query: turn_check_end(team) returns True iff, after the
\* units of that team whose move points are exhausted have been marked as
\* acted, every unit of that team has has_acted = True; the call changes
\* nothing but the has_acted flag of that team's exhausted units: no
\* position, health, move points or has_attacked, no unit of the other
\* team, not the unit list and not the map.
C12_TurnEndQuery ==
    [][(last'.op = "check" /\ steps' = steps + 1)
          => /\ last'.ok <=>
                  \A u \in Listed(gs') :
                      gs'.heap[u].team = last'.team => gs'.heap[u].has_acted
             /\ gs'.units = gs.units
             /\ gs'.tile_map = gs.tile_map
             /\ \A u \in DOMAIN gs.heap :
                   gs'.heap[u] =
                     IF /\ u \in Listed(gs)
                        /\ gs.heap[u].team = last'.team
                        /\ gs.heap[u].move_points <= EPSILON
                        THEN [gs.heap[u] EXCEPT !.has_acted = TRUE]
                        ELSE gs.heap[u]]_vars

\* a check that returned True for a team after marking one of its units,
\* while a unit of the other team is exhausted and stays unmarked
C12_Witness ==
    /\ last.op = "check"
    /\ last.ok
    /\ \E u \in Listed(gs) :
          /\ gs.heap[u].team = last.team
          /\ gs.heap[u].has_attacked
          /\ gs.heap[u].has_acted
    /\ \E u \in Listed(gs) :
          /\ gs.heap[u].team # last.team
          /\ gs.heap[u].move_points <= EPSILON
          /\ ~gs.heap[u].has_acted

\* C13 -- Exhausted unit: a unit whose move left it with at most EPSILON
\* move points has has_acted = True as soon as the move returns, and until
\* its team's next turn_begin_reset no entry (move, attack or wait) of
\* get_legal_actions for its team names it, while every team-mate that has
\* not acted and has move points left still has entries.
C13_ExhaustedUnit ==
    \A u \in exhausted :
        u \in Listed(gs) =>
            LET team == gs.heap[u].team
                legal == get_legal_actions(gs, team)
            IN  /\ gs.heap[u].has_acted
                /\ \A i \in DOMAIN legal : legal[i].unit_id # u
                /\ \A v \in Listed(gs) :
                      (/\ gs.heap[v].team = team
                       /\ ~gs.heap[v].has_acted
                       /\ gs.heap[v].move_points > EPSILON)
                        => \E i \in DOMAIN legal : legal[i].unit_id = v

\* the Swordsman has just moved its last points away and the Archer of its
\* team can still act
C13_Witness ==
    /\ last.op = "move"
    /\ last.ok
    /\ \E u \in exhausted :
          /\ u \in Listed(gs)
          /\ gs.heap[u].move_points <= EPSILON
          /\ \E i \in DOMAIN get_legal_actions(gs, gs.heap[u].team) :
                get_legal_actions(gs, gs.heap[u].team)[i].unit_id # u

\* C15 -- Retaliation rule: in a successful attack the attacker's health
\* changes only through retaliation.  The attacker loses health iff its
\* attack_range is <= 1 and the defender's health after the hit is > 0, and
\* then it loses what calculate_damage returns for the defender striking
\* back; an attacker with attack_range > 1 loses none, and a melee attacker
\* that kills the defender loses none.
C15_RetaliationRule ==
    \A a, d \in Listed(gs) :
        LET melee == UNIT_STATS[gs.heap[a].name].attack_range <= 1
            holds(r) ==
              r.ok =>
                /\ r.g.heap[a].health <= gs.heap[a].health
                /\ (r.g.heap[a].health < gs.heap[a].health)
                      <=> (melee /\ r.g.heap[d].health > 0)
                /\ (melee /\ r.g.heap[d].health > 0) =>
                      r.g.heap[a].health =
                        gs.heap[a].health
                          - calculate_damage(r.g.heap[d], gs.heap[a],
                                             PLAIN, PLAIN)
        IN  holds(apply_attack(gs, a, d))

\* after an attack: the Archer has shot and keeps its full health, and a
\* melee attacker has been struck back
C15_Witness ==
    /\ last.op = "attack"
    /\ last.ok
    /\ \E u \in Listed(gs) :
          /\ UNIT_STATS[gs.heap[u].name].attack_range > 1
          /\ gs.heap[u].has_attacked
          /\ gs.heap[u].health = UNIT_STATS[gs.heap[u].name].health
    /\ \E v \in UnitIds :
          /\ UNIT_STATS[gs.heap[v].name].attack_range <= 1
          /\ gs.heap[v].has_attacked
          /\ gs.heap[v].health < 8

\* every tile a move may name: the board and one column beyond it
MoveTargets(g) == (0..width(g)) \X (0..(height(g) - 1))

\* C16 -- Apply validates its preconditions, as first stated: a move or an
\* attack by a unit that has no usable move points left, or whose has_acted
\* flag is set, fails.
C16_ApplyValidatesActedFlag ==
    \A u \in Listed(gs) :
        (gs.heap[u].move_points <= EPSILON \/ gs.heap[u].has_acted) =>
            /\ \A t \in MoveTargets(gs) : ~move_unit(gs, u, t[1], t[2]).ok
            /\ \A d \in Listed(gs) : ~apply_attack(gs, u, d).ok

\* C16 -- Apply validates its preconditions, as the code has it: a move
\* fails when its target is occupied, when the unit has attacked, and when
\* the unit has at most EPSILON move points left; an attack fails when the
\* target is out of range and when the unit has attacked; a failed move or
\* attack leaves the state unchanged.  The has_acted flag is validated by
\* neither, and an attack does not need move points.
C16_ApplyValidates ==
    \A u \in Listed(gs) :
        /\ \A t \in MoveTargets(gs) :
              LET checked(r) ==
                    /\ (\/ get_unit_at(gs, t[1], t[2]) # None
                        \/ gs.heap[u].has_attacked
                        \/ gs.heap[u].move_points <= EPSILON)
                          => ~r.ok
                    /\ ~r.ok => r.g = gs
              IN  in_bounds(gs, t[1], t[2])
                    => checked(move_unit(gs, u, t[1], t[2]))
        /\ \A d \in Listed(gs) :
              LET checked(r) ==
                    /\ (\/ gs.heap[u].has_attacked
                        \/ manhattan(gs.heap[u].x, gs.heap[u].y,
                                     gs.heap[d].x, gs.heap[d].y)
                              > Max(1, UNIT_STATS[gs.heap[u].name].attack_range))
                          => ~r.ok
                    /\ ~r.ok => r.g = gs
              IN  checked(apply_attack(gs, u, d))

\* a move or an attack has just failed; one unit has attacked, another has
\* moved its points away and an enemy stands beyond its reach
C16_Witness ==
    /\ last.op \in {"move", "attack"}
    /\ ~last.ok
    /\ \E u \in Listed(gs) : gs.heap[u].has_attacked
    /\ \E u, d \in Listed(gs) :
          /\ u \in exhausted
          /\ gs.heap[u].team # gs.heap[d].team
          /\ ~can_attack(gs, u, d)

-----------------------------------------------------------------------------
(* calculate_damage over every archetype pair, attacker health and terrain *)
(* combination (SpecDamage).  A query is one call of calculate_damage with *)
(* a game state whose tile_map has atk_tile under the attacker and def_tile *)
(* under the defender; a call without a game state is the PLAIN/PLAIN case. *)

TileTypes == {PLAIN, HILL, MOUNTAIN, WATER}

SomeBoard == CHOOSE b \in InitBoards : TRUE

InitDamage ==
    /\ dq \in {[phase |-> "query", att |-> a, health |-> h, def |-> d,
                atk_tile |-> ta, def_tile |-> td, dmg |-> 0] :
                  a \in UnitTypes, h \in 1..115, d \in UnitTypes,
                  ta \in TileTypes, td \in TileTypes}
    /\ dq.health <= UNIT_STATS[dq.att].health
    /\ gs = SomeBoard
    /\ stack = <<>>
    /\ last = [op |-> "init", ok |-> TRUE]
    /\ ended = [t \in Teams |-> NoCheck]
    /\ attacked = {}
    /\ exhausted = {}
    /\ plan = NoPlan
    /\ steps = 0
    /\ tr = NoTrainer
    /\ ag = NoAgent
    /\ mcts = NoMcts
    /\ mm = NoMinimax

Compute ==
    /\ dq.phase = "query"
    /\ dq' = [dq EXCEPT
                !.phase = "done",
                !.dmg = calculate_damage(
                          new_unit(1, dq.att, 1, 0, 0, dq.health),
                          new_unit(2, dq.def, 2, 1, 0,
                                   UNIT_STATS[dq.def].health),
                          dq.atk_tile, dq.def_tile)]
    /\ UNCHANGED <<gs, stack, last, ended, attacked, exhausted, plan, steps,
                 mcts, mm, tr, ag>>

NextDamage == Compute

SpecDamage == InitDamage /\ [][NextDamage]_vars

\* C8 -- Damage floor: for every attacker/defender archetype pair, every
\* attacker health in 1..max_hp and every terrain combination,
\* calculate_damage returns an integer >= 1, so an attack that connects
\* lowers the defender's health by at least 1.
C8_DamageFloor ==
    dq.phase = "done" =>
        /\ dq.dmg \in Nat
        /\ dq.dmg >= 1
        /\ UNIT_STATS[dq.def].health - dq.dmg < UNIT_STATS[dq.def].health

C8_Witness ==
    /\ dq.phase = "done"
    /\ dq.dmg = 1
    /\ dq.health = 1
    /\ final_damage(new_unit(1, dq.att, 1, 0, 0, dq.health),
                    new_unit(2, dq.def, 2, 1, 0, UNIT_STATS[dq.def].health),
                    dq.atk_tile, dq.def_tile) = 0

-----------------------------------------------------------------------------
(* ai/agents/mcts_agent.py and parallel_mcts_agent.py: the root bandit of  *)
(* MCTSAgent.execute_next_actions (SpecMCTS).  An arm is a                 *)
(* _MCTSChildStats [visits, value_sum]; a rollout's value is drawn from    *)
(* RolloutValues.  Scores are in thousandths.                              *)

MaxArms == 3
MaxIterations == 4
RolloutValues == {0, 1}
PosInf == 2000000000
NegInf == 0 - PosInf
ParBestScore == 0 - 1000000000

\* math.log(n) in millionths, n = 1..12
LnMicro == <<0, 693147, 1098612, 1386294, 1609438, 1791759, 1945910,
             2079442, 2197225, 2302585, 2397895, 2484907>>

Isqrt(v) == CHOOSE r \in 0..2000 : r * r <= v /\ (r + 1) * (r + 1) > v

q_value(ch) ==
    IF ch.visits > 0 THEN (1000 * ch.value_sum) \div ch.visits ELSE 0

\* exploit + c_puct * sqrt(log_n / visits) with c_puct = 1.4
ucb(ch, total_visits) ==
    IF ch.visits = 0 THEN PosInf
    ELSE q_value(ch)
           + (14 * Isqrt(LnMicro[total_visits + 1] \div ch.visits)) \div 10

\* the scan "if ucb > best_score" over the arms from index i on
RECURSIVE select_from(_, _, _, _, _)
select_from(children, total_visits, i, best_idx, best_score) ==
    IF i > Len(children) THEN best_idx
    ELSE IF ucb(children[i], total_visits) > best_score
         THEN select_from(children, total_visits, i + 1, i,
                          ucb(children[i], total_visits))
         ELSE select_from(children, total_visits, i + 1, best_idx,
                          best_score)

\* arms are numbered from 1; best_idx = 0 of the source is arm 1
select_child_ucb(children, total_visits, mode) ==
    select_from(children, total_visits, 1, 1,
                IF mode = "parallel" THEN ParBestScore ELSE NegInf)

\* a variant of the back-propagation that counts only rewarded rollouts
backprop_rewarded(children, idx, value) ==
    [children EXCEPT ![idx].visits = @ + value,
                     ![idx].value_sum = @ + value]

\* child.visits += 1; child.value_sum += value
backprop(children, idx, value) ==
    [children EXCEPT ![idx].visits = @ + 1,
                     ![idx].value_sum = @ + value]

\* max(root_children, key=lambda ch: (ch.visits, ch.q_value)): the first
\* arm that no other arm beats
better(a, b) ==
    \/ a.visits > b.visits
    \/ a.visits = b.visits /\ q_value(a) > q_value(b)

\* the arm with the highest mean value, whatever its visits
most_valued(children) ==
    CHOOSE i \in DOMAIN children :
        /\ \A j \in DOMAIN children :
              q_value(children[j]) <= q_value(children[i])
        /\ \A j \in 1..(i - 1) :
              q_value(children[j]) < q_value(children[i])

best_child(children) ==
    CHOOSE i \in DOMAIN children :
        /\ \A j \in DOMAIN children : ~better(children[j], children[i])
        /\ \A j \in 1..(i - 1) : better(children[i], children[j])

-----------------------------------------------------------------------------
(* ai/planning/action_planning.py: ActionPlannerReversible._dfs and        *)
(* plan_sequences as functions of the simulation state.  The one mutable   *)
(* simulation is threaded through the recursion, so whatever _undo leaves  *)
(* behind is seen by the later siblings.  random.shuffle is one of the     *)
(* Shuffles: the list kept as it is, or reversed.                          *)

Shuffles == {"keep", "reverse"}

shuffled(legal, shuffle) ==
    IF shuffle = "keep" THEN legal
    ELSE [i \in 1..Len(legal) |-> legal[Len(legal) + 1 - i]]

opponent_of(team) == IF team = 2 THEN 1 ELSE 2

RECURSIVE dfs(_, _, _, _, _)
RECURSIVE dfs_loop(_, _, _, _, _, _, _)

\* a search that expands every legal action of a node
dfs_unsliced(p, team, g, actions, out) ==
    IF Len(out) >= p.dfs_action_sets_limit THEN [g |-> g, out |-> out]
    ELSE
      LET branch(c, legal) ==
            IF c.ok \/ legal = <<>>
               THEN [g |-> c.g, out |-> Append(out, actions)]
               ELSE dfs_loop(p, team, c.g, actions, out,
                             shuffled(legal, p.shuffle), 1)
          checked(c) == branch(c, get_legal_actions(c.g, team))
      IN  checked(turn_check_end(g, team))

\* [g |-> the simulation after the call, out |-> the sequences so far]
dfs(p, team, g, actions, out) ==
    IF Len(out) >= p.dfs_action_sets_limit THEN [g |-> g, out |-> out]
    ELSE
      LET branch(c, legal) ==
            IF c.ok \/ legal = <<>>
               THEN [g |-> c.g, out |-> Append(out, actions)]
               ELSE dfs_loop(p, team, c.g, actions, out,
                             SubSeq(shuffled(legal, p.shuffle), 1,
                                    Min(Len(legal), p.dfs_branching_limit)),
                             1)
          checked(c) == branch(c, get_legal_actions(c.g, team))
      IN  checked(turn_check_end(g, team))

\* the "for act in legal" loop from its i-th round on
dfs_loop(p, team, g, actions, out, legal, i) ==
    IF i > Len(legal) THEN [g |-> g, out |-> out]
    ELSE
      LET next(g2, out2) ==
            IF Len(out2) >= p.dfs_action_sets_limit
               THEN [g |-> g2, out |-> out2]
               ELSE dfs_loop(p, team, g2, actions, out2, legal, i + 1)
          undone(r, d) == next(undo(d.g, r.token[1]), d.out)
          applied(r) ==
            IF ~r.ok THEN dfs_loop(p, team, r.g, actions, out, legal, i + 1)
            ELSE undone(r, dfs(p, team, r.g, Append(actions, legal[i]), out))
      IN  applied(apply_action_reversible(g, legal[i]))

plan_sequences(p, game_board, team_id) ==
    dfs(p, team_id, start_turn(game_board, team_id), <<>>, <<>>).out

RECURSIVE apply_all(_, _, _)
\* "for act in seq: apply_action(act)", the results ignored
apply_all(g, seq, i) ==
    IF i > Len(seq) THEN g
    ELSE apply_all(apply_action(g, seq[i]).g, seq, i + 1)

\* a copy that keeps referring to the unit objects of the original
shallow_clone(g) == [board |-> g, shared |-> {u \in DOMAIN g.heap : TRUE}]

\* GameState.fast_clone: a deep, independent copy.  [board, shared]: the
\* copy and the unit objects of the original it still refers to (none).
fast_clone(g) == [board |-> g, shared |-> {}]

\* the original board when a simulation on the copy has left the copy's
\* units as in sim: a shared unit object holds what the simulation wrote
original_after(g, copy, sim) ==
    [g EXCEPT !.heap = [u \in DOMAIN g.heap |->
                           IF u \in copy.shared THEN sim.heap[u]
                           ELSE g.heap[u]]]

\* Every full turn of a team from a board, by the planner's own rules (a
\* turn is over when turn_check_end holds or no legal action is left) but
\* on a fresh copy of the state for every branch.
RECURSIVE full_turns(_, _, _)
full_turns(g, team, actions) ==
    LET c == turn_check_end(g, team)
        legal == get_legal_actions(c.g, team)
    IN  IF c.ok \/ legal = <<>> THEN {actions}
        ELSE UNION {full_turns(apply_action(c.g, legal[i]).g, team,
                               Append(actions, legal[i])) :
                      i \in DOMAIN legal}

all_full_turns(game_board, team) ==
    full_turns(start_turn(game_board, team), team, <<>>)

-----------------------------------------------------------------------------
(* ai/agents/minimax_agent.py: MinimaxAgent (SpecMinimax).  The agent's    *)
(* parameters are a record p: [depth, dfs_action_sets_limit,               *)
(* dfs_branching_limit, child_limit, brain, shuffle].  The brain is one of *)
(* the Brains, each a function of the board snapshot and the team.  The    *)
(* sequence cache maps a team to <<>> (no entry) or to <<its sequences,    *)
(* the number of planner runs that filled the entry>>.  The agent object   *)
(* lives through MaxCalls calls of execute_next_actions; between two calls *)
(* the other side plays a full turn.                                       *)

Depth == 2
MaxCalls == 2
DfsActionSetsLimit == 200
DfsBranchingLimit == 12
ChildLimit == 6

Brains == {"material", "distance", "approach"}

RECURSIVE health_sum(_, _, _)
health_sum(g, units, i) ==
    IF i > Len(units) THEN 0
    ELSE g.heap[units[i]].health + health_sum(g, units, i + 1)

health_of(g, team) ==
    health_sum(g, SelectSeq(g.units, LAMBDA u : g.heap[u].team = team), 1)

RECURSIVE distance_sum(_, _, _, _)
distance_sum(g, u, others, j) ==
    IF j > Len(others) THEN 0
    ELSE manhattan(g.heap[u].x, g.heap[u].y,
                   g.heap[others[j]].x, g.heap[others[j]].y)
           + distance_sum(g, u, others, j + 1)

RECURSIVE distance_total(_, _, _, _)
distance_total(g, own, others, i) ==
    IF i > Len(own) THEN 0
    ELSE distance_sum(g, own[i], others, 1)
           + distance_total(g, own, others, i + 1)

distance_of(g, team) ==
    distance_total(g,
                   SelectSeq(g.units, LAMBDA u : g.heap[u].team = team),
                   SelectSeq(g.units, LAMBDA u : g.heap[u].team # team),
                   1)

\* brain.predict(encode_state_old(snapshot, team_id))[0]
eval_snapshot(p, g, team_id) ==
    CASE p.brain = "material" ->
           health_of(g, team_id) - health_of(g, opponent_of(team_id))
      [] p.brain = "distance" -> distance_of(g, team_id)
      [] OTHER -> 0 - distance_of(g, team_id)

EmptyCache == [t \in Teams |-> <<>>]

\* a cache that is left as it is
uncleared(cache) == cache

\* self._sequence_cache.clear()
clear(cache) == EmptyCache

\* how often the planner was run for the team's entry
runs_of(cache, team_id) ==
    IF cache[team_id] = <<>> THEN 0 ELSE cache[team_id][2]

\* [sequences, cache]
get_sequences_cached(p, cache, team_id, g) ==
    IF cache[team_id] # <<>>
       THEN [sequences |-> cache[team_id][1], cache |-> cache]
       ELSE LET store(sequences) ==
                  [sequences |-> sequences,
                   cache |-> [cache EXCEPT
                                ![team_id] =
                                   <<sequences, runs_of(cache, team_id) + 1>>]]
            IN  store(plan_sequences(p, g, team_id))

\* one sequence re-simulated from the node's state
replay_of(g, seq, acting_team) ==
    LET advance(replay) ==
          IF is_game_over(replay) THEN replay
          ELSE start_turn(replay, opponent_of(acting_team))
    IN  advance(apply_all(start_turn(g, acting_team), seq, 1))

\* list.sort(key=score, reverse=True): stable, best first
RECURSIVE sort_desc(_, _)
sort_desc(scored, i) ==
    IF i > Len(scored) THEN <<>>
    ELSE LET rest == sort_desc(scored, i + 1)
             k == Cardinality({j \in DOMAIN rest :
                                  rest[j].score > scored[i].score})
         IN  SubSeq(rest, 1, k) \o <<scored[i]>>
                 \o SubSeq(rest, k + 1, Len(rest))

\* [children, cache]; a child is [seq, score, sim]
get_children(p, cache, g, acting_team, eval_team) ==
    LET child(seq, replay) ==
          [seq |-> seq, score |-> eval_snapshot(p, replay, eval_team),
           sim |-> replay]
        scored(sequences) ==
          [i \in DOMAIN sequences |->
              child(sequences[i], replay_of(g, sequences[i], acting_team))]
        limited(sorted) ==
          IF p.child_limit # 0
             THEN SubSeq(sorted, 1, Min(Len(sorted), p.child_limit))
             ELSE sorted
        expand(sc) ==
          [children |-> limited(sort_desc(scored(sc.sequences), 1)),
           cache |-> sc.cache]
    IN  expand(get_sequences_cached(p, cache, acting_team, g))

RECURSIVE minimax(_, _, _, _, _, _, _, _)
RECURSIVE minimax_loop(_, _, _, _, _, _, _, _, _, _)

\* [value, cache, cuts]: cuts counts the loops left by "break" with
\* children still unsearched
minimax(p, cache, g, team_id, depth, alpha, beta, is_max) ==
    IF depth = 0 \/ is_game_over(g)
       THEN [value |-> eval_snapshot(p, g, team_id), cache |-> cache,
             cuts |-> 0]
    ELSE
      LET acting_team == IF is_max THEN team_id ELSE opponent_of(team_id)
          search_in(ch) ==
            IF ch.children = <<>>
               THEN [value |-> eval_snapshot(p, g, team_id),
                     cache |-> ch.cache, cuts |-> 0]
               ELSE minimax_loop(p, ch.cache, ch.children, 1, team_id, depth,
                                 alpha, beta, is_max,
                                 IF is_max THEN NegInf ELSE PosInf)
      IN  search_in(get_children(p, cache, g, acting_team, team_id))

\* a loop that stops after its first child
first_child_loop(p, cache, children, i, team_id, depth, alpha, beta, is_max, best) ==
    IF i > Len(children) THEN [value |-> best, cache |-> cache, cuts |-> 0]
    ELSE minimax(p, cache, children[i].sim, team_id, depth - 1, alpha, beta,
                 ~is_max)

minimax_loop(p, cache, children, i, team_id, depth, alpha, beta, is_max, best) ==
    IF i > Len(children) THEN [value |-> best, cache |-> cache, cuts |-> 0]
    ELSE
      LET more(r, cuts) == [r EXCEPT !.cuts = @ + cuts]
          pruned(cache2, best2, alpha2, beta2, cuts) ==
            IF alpha2 >= beta2
               THEN [value |-> best2, cache |-> cache2,
                     cuts |-> cuts + IF i < Len(children) THEN 1 ELSE 0]
            ELSE more(minimax_loop(p, cache2, children, i + 1, team_id,
                                   depth, alpha2, beta2, is_max, best2),
                      cuts)
          bounded(cache2, best2, cuts) ==
            pruned(cache2, best2,
                   IF is_max THEN Max(alpha, best2) ELSE alpha,
                   IF is_max THEN beta ELSE Min(beta, best2),
                   cuts)
          valued(r) ==
            bounded(r.cache,
                    IF is_max THEN Max(best, r.value)
                    ELSE Min(best, r.value),
                    r.cuts)
      IN  valued(minimax(p, cache, children[i].sim, team_id, depth - 1,
                         alpha, beta, ~is_max))

RECURSIVE plain_minimax(_, _, _, _, _, _)
RECURSIVE plain_loop(_, _, _, _, _, _, _, _)

\* minimax without cutoffs over the same children: MAX at the agent's own
\* plies, MIN at the opponent's; [value, cache]
plain_minimax(p, cache, g, team_id, depth, is_max) ==
    IF depth = 0 \/ is_game_over(g)
       THEN [value |-> eval_snapshot(p, g, team_id), cache |-> cache]
    ELSE
      LET acting_team == IF is_max THEN team_id ELSE opponent_of(team_id)
          search_in(ch) ==
            IF ch.children = <<>>
               THEN [value |-> eval_snapshot(p, g, team_id),
                     cache |-> ch.cache]
               ELSE plain_loop(p, ch.cache, ch.children, 1, team_id, depth,
                               is_max, IF is_max THEN NegInf ELSE PosInf)
      IN  search_in(get_children(p, cache, g, acting_team, team_id))

plain_loop(p, cache, children, i, team_id, depth, is_max, best) ==
    IF i > Len(children) THEN [value |-> best, cache |-> cache]
    ELSE
      LET valued(r) ==
            plain_loop(p, r.cache, children, i + 1, team_id, depth, is_max,
                       IF is_max THEN Max(best, r.value)
                       ELSE Min(best, r.value))
      IN  valued(plain_minimax(p, cache, children[i].sim, team_id,
                               depth - 1, ~is_max))

\* The exhaustive two-ply search: the value of an own full turn is the
\* lowest evaluation over every full turn of the opponent that follows it.
two_ply_value(p, g, team_id, seq) ==
    LET after == replay_of(g, seq, team_id)
        replies == all_full_turns(after, opponent_of(team_id))
    IN  IF is_game_over(after) THEN eval_snapshot(p, after, team_id)
        ELSE LET values == {eval_snapshot(
                               p, replay_of(after, reply,
                                            opponent_of(team_id)),
                               team_id) : reply \in replies}
             IN  CHOOSE v \in values : \A w \in values : v <= w

two_ply_best(p, g, team_id) ==
    LET values == {two_ply_value(p, g, team_id, seq) :
                     seq \in all_full_turns(g, team_id)}
    IN  CHOOSE v \in values : \A w \in values : v >= w

\* A small fixed board: 3x3, uniform terrain, one unit per side.
HillMap == << <<HILL, HILL, HILL>>, <<HILL, HILL, HILL>>,
              <<HILL, HILL, HILL>> >>

\* <<the agent's unit, the opponent's unit>>: adjacent or apart, in a corner
\* or in the centre
MinimaxPlacements ==
    {<<<<0, 0>>, <<0, 1>>>>, <<<<0, 0>>, <<2, 2>>>>,
     <<<<1, 1>>, <<1, 0>>>>, <<<<1, 1>>, <<2, 2>>>>}

MinimaxHealths ==
    {<<UNIT_STATS["Swordsman"].health, UNIT_STATS["Spearman"].health>>,
     <<20, UNIT_STATS["Spearman"].health>>,
     <<UNIT_STATS["Swordsman"].health, 20>>}

MinimaxBoards ==
    {[tile_map |-> HillMap,
      units |-> <<1, 2>>,
      heap |-> <<new_unit(1, "Swordsman", 1, pl[1][1], pl[1][2], h[1]),
                 new_unit(2, "Spearman", 2, pl[2][1], pl[2][2], h[2])>>] :
        pl \in MinimaxPlacements, h \in MinimaxHealths}

MinimaxParams ==
    {[depth |-> Depth, dfs_action_sets_limit |-> DfsActionSetsLimit,
      dfs_branching_limit |-> DfsBranchingLimit, child_limit |-> ChildLimit,
      brain |-> b, shuffle |-> sh] : b \in Brains, sh \in Shuffles}

InitMinimax ==
    /\ gs \in MinimaxBoards
    /\ mm \in {[phase |-> "start", team |-> 1, p |-> p, root |-> gs,
                cache |-> EmptyCache, children |-> <<>>, i |-> 1,
                best_score |-> NegInf, best_seq |-> <<>>,
                executed |-> FALSE, call |-> 1,
                earlier |-> EmptyCache] : p \in MinimaxParams}
    /\ stack = <<>>
    /\ last = [op |-> "init", ok |-> TRUE]
    /\ ended = [t \in Teams |-> NoCheck]
    /\ attacked = {}
    /\ exhausted = {}
    /\ plan = NoPlan
    /\ steps = 0
    /\ tr = NoTrainer
    /\ ag = NoAgent
    /\ dq = NoDamageQuery
    /\ mcts = NoMcts

\* execute_next_actions: the cache is cleared and the root is expanded on a
\* clone of the real board
RootExpand ==
    /\ mm.phase = "start"
    /\ LET expanded(ch) ==
             [mm EXCEPT
                !.phase = IF ch.children = <<>> THEN "done" ELSE "loop",
                !.cache = ch.cache,
                !.children = ch.children]
           touched(ch) ==
             original_after(gs, fast_clone(gs),
                            IF ch.children = <<>> THEN gs
                            ELSE ch.children[Len(ch.children)].sim)
           rooted(ch) == mm' = expanded(ch) /\ gs' = touched(ch)
       IN  rooted(get_children(mm.p, clear(mm.cache), fast_clone(gs).board,
                               mm.team, mm.team))
    /\ UNCHANGED <<stack, last, ended, attacked, exhausted, plan, steps,
                   dq, mcts, tr, ag>>

\* one round of "for idx, (seq, child_sim) in enumerate(root_children)"
EvalChild ==
    /\ mm.phase = "loop"
    /\ mm.i <= Len(mm.children)
    /\ LET scored(r) ==
             [mm EXCEPT
                !.cache = r.cache,
                !.i = @ + 1,
                !.best_score = IF r.value > @ THEN r.value ELSE @,
                !.best_seq = IF r.value > mm.best_score
                                THEN <<mm.children[mm.i].seq>> ELSE @]
       IN  mm' = scored(minimax(mm.p, mm.cache, mm.children[mm.i].sim,
                                mm.team, mm.p.depth, NegInf, PosInf, FALSE))
    /\ gs' = original_after(gs, fast_clone(gs), mm.children[mm.i].sim)
    /\ UNCHANGED <<stack, last, ended, attacked, exhausted, plan, steps,
                   dq, mcts, tr, ag>>

\* the chosen sequence is applied to the real game
Execute ==
    /\ mm.phase = "loop"
    /\ mm.i > Len(mm.children)
    /\ IF mm.best_seq = <<>> \/ mm.best_seq[1] = <<>>
          THEN /\ mm' = [mm EXCEPT !.phase = "done"]
               /\ UNCHANGED gs
          ELSE /\ mm' = [mm EXCEPT !.phase = "done", !.executed = TRUE]
               /\ gs' = apply_all(gs, mm.best_seq[1], 1)
    /\ UNCHANGED <<stack, last, ended, attacked, exhausted, plan, steps, dq,
                   mcts, tr, ag>>

\* the match loop: the other side plays a full turn, the agent's turn is
\* started and the same agent object is asked for its next decision
OpponentTurn ==
    /\ mm.phase = "done"
    /\ mm.call < MaxCalls
    /\ ~is_game_over(gs)
    /\ \E seq \in all_full_turns(gs, opponent_of(mm.team)) :
         LET next_call(after) ==
               /\ ~is_game_over(after)
               /\ gs' = start_turn(after, mm.team)
               /\ mm' = [mm EXCEPT
                           !.phase = "start", !.call = @ + 1,
                           !.root = start_turn(after, mm.team),
                           !.earlier = mm.cache,
                           !.children = <<>>, !.i = 1,
                           !.best_score = NegInf, !.best_seq = <<>>,
                           !.executed = FALSE]
         IN  next_call(apply_all(start_turn(gs, opponent_of(mm.team)),
                                 seq, 1))
    /\ UNCHANGED <<stack, last, ended, attacked, exhausted, plan, steps, dq,
                   mcts, tr, ag>>

NextMinimax ==
    \/ RootExpand
    \/ EvalChild
    \/ Execute
    \/ OpponentTurn

SpecMinimax == InitMinimax /\ [][NextMinimax]_vars

\* C10 -- Minimax equals exhaustive search: on a 3x3 board with uniform
\* terrain and one unit per side, the agent with depth = 2 and a
\* child_limit that keeps every sequence executes a root sequence that the
\* exhaustive two-ply search (own full turn, then opponent full turn,
\* no pruning) returns: one whose two-ply value is the best two-ply value.
C10_MinimaxIsExhaustive ==
    mm.phase = "done" =>
        /\ mm.best_seq # <<>>
        /\ two_ply_value(mm.p, mm.root, mm.team, mm.best_seq[1])
             = two_ply_best(mm.p, mm.root, mm.team)

-----------------------------------------------------------------------------
(* The ranged-attack scenario (SpecRanged): a 5x5 all-plain board with a   *)
(* team-1 Archer at (0,0) and a team-2 Swordsman at (0,3).  Team 1's turn  *)
(* starts; the team whose turn it is plays legal actions, then the other   *)
(* team's turn starts.  last.team is the team whose turn it is.            *)

MaxRangedSteps == 4

PlainMap == [y \in 1..5 |-> [x \in 1..5 |-> PLAIN]]

RangedBoard ==
    [tile_map |-> PlainMap,
     units |-> <<1, 2>>,
     heap |-> <<new_unit(1, "Archer", 1, 0, 0, UNIT_STATS["Archer"].health),
                new_unit(2, "Swordsman", 2, 0, 3,
                         UNIT_STATS["Swordsman"].health)>>]

InitRanged ==
    /\ gs = RangedBoard
    /\ stack = <<>>
    /\ last = [op |-> "init", ok |-> TRUE]
    /\ ended = [t \in Teams |-> NoCheck]
    /\ attacked = {}
    /\ exhausted = {}
    /\ plan = NoPlan
    /\ steps = 0
    /\ tr = NoTrainer
    /\ ag = NoAgent
    /\ dq = NoDamageQuery
    /\ mcts = NoMcts
    /\ mm = NoMinimax

RangedStartTurn ==
    /\ steps = 0
    /\ gs' = start_turn(gs, 1)
    /\ last' = [op |-> "start", ok |-> TRUE, team |-> 1]
    /\ steps' = 1
    /\ UNCHANGED <<stack, ended, attacked, exhausted, plan, dq, mcts, mm, tr,
                   ag>>

\* the team whose turn it is applies one of its legal actions
RangedAct ==
    /\ steps >= 1
    /\ steps < MaxRangedSteps
    /\ \E act \in Range(get_legal_actions(gs, last.team)) :
         LET applied(r) ==
               /\ gs' = r.g
               /\ last' = [op |-> act.type, ok |-> r.ok, team |-> last.team]
         IN  applied(apply_action(gs, act))
    /\ steps' = steps + 1
    /\ UNCHANGED <<stack, ended, attacked, exhausted, plan, dq, mcts, mm, tr,
                   ag>>

\* the other team's turn starts
RangedNextTurn ==
    /\ steps >= 2
    /\ steps < MaxRangedSteps
    /\ last.op # "start"
    /\ gs' = start_turn(gs, opponent_of(last.team))
    /\ last' = [op |-> "start", ok |-> TRUE, team |-> opponent_of(last.team)]
    /\ steps' = steps + 1
    /\ UNCHANGED <<stack, ended, attacked, exhausted, plan, dq, mcts, mm, tr,
                   ag>>

NextRanged ==
    \/ RangedStartTurn
    \/ RangedAct
    \/ RangedNextTurn

SpecRanged == InitRanged /\ [][NextRanged]_vars

\* C14 -- Ranged-attack scenario: at the start of team 1's turn its legal
\* actions include an attack on the Swordsman, three tiles away; when that
\* attack is applied first, the Swordsman's health is lower by exactly what
\* calculate_damage returns for the pair on plain tiles and the Archer's
\* health is unchanged.
C14_RangedAttack ==
    /\ steps = 1 =>
          \E act \in Range(get_legal_actions(gs, 1)) :
              act = [unit_id |-> 1, type |-> "attack", target |-> <<2>>]
    /\ (steps = 2 /\ last.op = "attack") =>
          /\ last.ok
          /\ gs.heap[2].health =
                RangedBoard.heap[2].health
                  - calculate_damage(RangedBoard.heap[1], RangedBoard.heap[2],
                                     PLAIN, PLAIN)
          /\ gs.heap[1].health = RangedBoard.heap[1].health

\* the Archer has shot first: 45 * 100 / (100 + 400) = 9 points
C14_Witness ==
    /\ steps = 2
    /\ last.op = "attack"
    /\ last.ok
    /\ gs.heap[2].health = 101
    /\ gs.heap[1].health = 70

-----------------------------------------------------------------------------
(* ai/neat/neat_trainer.py: NeatTrainer.eval_genomes (SpecTrainer).        *)
(* tr is one call: the population size n (genome ids 1..n), the configured *)
(* opponents_per_genome and max_workers, the position a of the scheduling  *)
(* loop, the match list, the pool (next match to start, matches running),  *)
(* fitness_sums, match_counts and every genome's fitness.  A fitness is    *)
(* the exact fraction [num, den] of the float division; a sum is a float   *)
(* of FloatBits significant bits, rounded at every "+=".  History: samples *)
(* lists every <<genome, sampled opponent>>, results holds every collected *)
(* match with its two fitness values and its place k in the order of       *)
(* completion, failed the matches whose worker raised.                     *)

MaxGenomes == 3
MaxOpponents == 2
MaxWorkers == 2
FloatBits == 5

\* the spacing of the floats around the number v >= 0
RECURSIVE ulp_of(_, _)
ulp_of(v, q) == IF v < q * 2 ^ FloatBits THEN q ELSE ulp_of(v, 2 * q)

\* the float nearest to the number v >= 0, a tie going to the even mantissa
to_float(v) ==
    LET q == ulp_of(v, 1)
        lo == (v \div q) * q
    IN  IF 2 * (v - lo) < q THEN lo
        ELSE IF 2 * (v - lo) > q THEN lo + q
        ELSE IF (lo \div q) % 2 = 0 THEN lo ELSE lo + q

\* a + b on floats
float_add(a, b) == to_float(a + b)

\* the two tables compute_fitness may follow: what the genome playing team 1
\* and the genome playing team 2 earn in the match of a against b
FitnessTables == {0, 1}

compute_fitness(table, gid_a, gid_b) ==
    <<10 + 2 * gid_a - gid_b + table, 10 + 2 * gid_b - gid_a>>

\* random.sample(candidates, k): every sequence of k distinct candidates
sample(candidates, k) ==
    {q \in [1..k -> candidates] :
        \A i, j \in 1..k : i # j => q[i] # q[j]}

\* a variant that schedules only the genome's own game as team 1
one_sided_matches(gid_a, opponents) ==
    [i \in 1..Len(opponents) |-> <<gid_a, opponents[i]>>]

\* "for gid_b in opponents": A as team 1 against B, then B as team 1
\* against A
symmetric_matches(gid_a, opponents) ==
    [i \in 1..(2 * Len(opponents)) |->
        IF i % 2 = 1 THEN <<gid_a, opponents[(i + 1) \div 2]>>
        ELSE <<opponents[i \div 2], gid_a>>]

\* a variant that divides by the configured number of games
normalized_by_config(t, gid) ==
    [num |-> t.fitness_sums[gid],
     den |-> Max(1, 2 * t.opponents_per_genome)]

\* fitness_sums.get(gid, 0.0) / float(max(1, match_counts.get(gid, 0)))
normalized(t, gid) ==
    [num |-> t.fitness_sums[gid], den |-> Max(1, t.match_counts[gid])]

InitTrainer ==
    /\ tr \in {[phase |-> "build", n |-> n, opponents_per_genome |-> k,
                max_workers |-> MaxWorkers, table |-> tb, a |-> 1,
                samples |-> <<>>, matches |-> <<>>,
                next |-> 1, running |-> {}, results |-> {}, failed |-> {},
                fitness_sums |-> [g \in 1..n |-> 0],
                match_counts |-> [g \in 1..n |-> 0],
                fitness |-> [g \in 1..n |-> [num |-> 0, den |-> 1]]] :
                  n \in 1..MaxGenomes, k \in 1..MaxOpponents,
                  tb \in FitnessTables}
    /\ gs = SomeBoard
    /\ stack = <<>>
    /\ last = [op |-> "init", ok |-> TRUE]
    /\ ended = [t \in Teams |-> NoCheck]
    /\ attacked = {}
    /\ exhausted = {}
    /\ plan = NoPlan
    /\ steps = 0
    /\ dq = NoDamageQuery
    /\ mcts = NoMcts
    /\ mm = NoMinimax
    /\ ag = NoAgent

\* one round of "for gid_a in genome_ids"
BuildMatches ==
    /\ tr.phase = "build"
    /\ tr.a <= tr.n
    /\ LET candidates == (1..tr.n) \ {tr.a}
           k == Min(tr.opponents_per_genome, Cardinality(candidates))
       IN  IF candidates = {} THEN tr' = [tr EXCEPT !.a = @ + 1]
           ELSE \E opponents \in sample(candidates, k) :
                  tr' = [tr EXCEPT
                           !.a = @ + 1,
                           !.samples = @ \o [i \in 1..k |->
                                                <<tr.a, opponents[i]>>],
                           !.matches = @ \o symmetric_matches(tr.a,
                                                              opponents)]
    /\ UNCHANGED <<gs, stack, last, ended, attacked, exhausted, plan, steps,
                   dq, mcts, mm, ag>>

\* every match is submitted to the pool
Submit_matches ==
    /\ tr.phase = "build"
    /\ tr.a > tr.n
    /\ tr' = [tr EXCEPT !.phase = "collect"]
    /\ UNCHANGED <<gs, stack, last, ended, attacked, exhausted, plan, steps,
                   dq, mcts, mm, ag>>

\* a free worker takes the next submitted match
WorkerStart ==
    /\ tr.phase = "collect"
    /\ tr.next <= Len(tr.matches)
    /\ Cardinality(tr.running) < tr.max_workers
    /\ tr' = [tr EXCEPT !.next = @ + 1, !.running = @ \cup {tr.next}]
    /\ UNCHANGED <<gs, stack, last, ended, attacked, exhausted, plan, steps,
                   dq, mcts, mm, ag>>

\* as_completed yields a finished match and f.result() returns its result
CollectResult ==
    /\ tr.phase = "collect"
    /\ \E idx \in tr.running :
         LET gid_a == tr.matches[idx][1]
             gid_b == tr.matches[idx][2]
             f == compute_fitness(tr.table, gid_a, gid_b)
         IN  tr' = [tr EXCEPT
                      !.running = @ \ {idx},
                      !.results = @ \cup {[idx |-> idx, a |-> gid_a,
                                             b |-> gid_b, f_a |-> f[1],
                                             f_b |-> f[2],
                                             k |-> Cardinality(@) + 1]},
                      !.fitness_sums =
                          [g \in 1..tr.n |->
                              IF g = gid_a THEN float_add(@[g], f[1])
                              ELSE IF g = gid_b THEN float_add(@[g], f[2])
                              ELSE @[g]],
                      !.match_counts =
                          [g \in 1..tr.n |->
                              @[g] + (IF g = gid_a THEN 1 ELSE 0)
                                   + (IF g = gid_b THEN 1 ELSE 0)]]
    /\ UNCHANGED <<gs, stack, last, ended, attacked, exhausted, plan, steps,
                   dq, mcts, mm, ag>>

\* as_completed yields a match whose worker raised: f.result() raises it
\* again, nothing catches it, the pool is shut down and eval_genomes is left
\* by the exception
CollectError ==
    /\ tr.phase = "collect"
    /\ \E idx \in tr.running :
         tr' = [tr EXCEPT !.phase = "raised",
                          !.running = @ \ {idx},
                          !.failed = @ \cup {idx}]
    /\ UNCHANGED <<gs, stack, last, ended, attacked, exhausted, plan, steps,
                   dq, mcts, mm, ag>>

\* "for gid, genome in genomes: genome.fitness = ..." and the return
Normalize ==
    /\ tr.phase = "collect"
    /\ tr.next > Len(tr.matches)
    /\ tr.running = {}
    /\ tr' = [tr EXCEPT !.phase = "done",
                        !.fitness = [g \in 1..tr.n |-> normalized(tr, g)]]
    /\ UNCHANGED <<gs, stack, last, ended, attacked, exhausted, plan, steps,
                   dq, mcts, mm, ag>>

NextTrainer ==
    \/ BuildMatches
    \/ Submit_matches
    \/ WorkerStart
    \/ CollectResult
    \/ CollectError
    \/ Normalize

SpecTrainer == InitTrainer /\ [][NextTrainer]_vars

-----------------------------------------------------------------------------
(* Properties of one eval_genomes call (SpecTrainer) *)

\* the call is over: it returned, or an exception left it
trainer_over(t) == t.phase \in {"done", "raised"}

\* the collected matches genome g took part in, as team 1 or as team 2
played(t, g) == {r \in t.results : r.a = g \/ r.b = g}

RECURSIVE earned(_, _)
\* what genome g earned over a set of collected matches: the float sum in
\* the order of their completion
earned(rs, g) ==
    IF rs = {} THEN 0
    ELSE LET r == CHOOSE x \in rs : \A y \in rs : y.k <= x.k
         IN  float_add(earned(rs \ {r}, g),
                       IF r.a = g THEN r.f_a ELSE r.f_b)

\* C17 -- A failing self-play match does not abort the generation: when
\* eval_genomes is over and a match raised in its worker, the call has
\* returned normally, the result of every other match has been collected,
\* and every genome has the fitness of the matches collected for it (the
\* failed match retried or counted as a draw, never dropped with the rest).
C17_FailingMatchDoesNotAbort ==
    (trainer_over(tr) /\ tr.failed # {})
      => /\ tr.phase = "done"
         /\ \A idx \in (1..Len(tr.matches)) \ tr.failed :
               \E r \in tr.results : r.idx = idx
         /\ \A g \in 1..tr.n :
               played(tr, g) # {}
                 => tr.fitness[g].num * Cardinality(played(tr, g))
                      = earned(played(tr, g), g) * tr.fitness[g].den

\* C18 -- Fitness normalisation: after eval_genomes returned, each genome's
\* fitness is the sum of what it earned in every match it took part in (as
\* team 1 or team 2, matches from other genomes' samples included) divided
\* by the number of those matches, not by a configured number of games; a
\* genome that played no match keeps 0.
C18_FitnessNormalisation ==
    tr.phase = "done"
      => \A g \in 1..tr.n :
            LET mine == played(tr, g)
                count == Cardinality(mine)
            IN  /\ count = Cardinality({i \in 1..Len(tr.matches) :
                                           g \in Range(tr.matches[i])})
                /\ IF count = 0
                   THEN tr.fitness[g].num = 0
                   ELSE tr.fitness[g].num * count
                          = earned(mine, g) * tr.fitness[g].den

\* a returned call in which some genome played more games than twice the
\* configured opponents_per_genome, and another exactly that many
C18_Witness ==
    /\ tr.phase = "done"
    /\ \E g, h \in 1..tr.n :
         /\ tr.match_counts[g] > 2 * tr.opponents_per_genome
         /\ tr.match_counts[h] = 2 * tr.opponents_per_genome
         /\ tr.fitness[g].num > 0

\* C19 -- Both assignments are played: the i-th sampled pair <<A, B>> is
\* scheduled as exactly two matches, A as team 1 against B and then B as
\* team 1 against A, nothing else is scheduled, and no match sets a genome
\* against itself.
C19_BothAssignments ==
    /\ Len(tr.matches) = 2 * Len(tr.samples)
    /\ \A i \in 1..Len(tr.samples) :
          /\ tr.matches[2 * i - 1] = tr.samples[i]
          /\ tr.matches[2 * i] = <<tr.samples[i][2], tr.samples[i][1]>>
    /\ \A i \in 1..Len(tr.matches) : tr.matches[i][1] # tr.matches[i][2]

\* every genome sampled two opponents, and genomes 1 and 2 sampled each other
C19_Witness ==
    /\ tr.phase = "collect"
    /\ Len(tr.samples) = 6
    /\ <<1, 2>> \in Range(tr.samples)
    /\ <<2, 1>> \in Range(tr.samples)

-----------------------------------------------------------------------------
(* An agent asked to play a turn (SpecAgent): NeatAgent.execute_next_actions *)
(* as the self-play simulator calls it, and GameAPI.run_ai_turn as the game  *)
(* engine calls it.  ag is the call: its entry point, the agent object       *)
(* ("NeatAgent", "RuntimeNeatAgent", or "BasicAgent" and "NoneType", which   *)
(* have no play_turn), the network passed (net) and the brain attached       *)
(* (brain), None when absent, the team, the shuffle of the planner, the      *)
(* board when the call began (before), the chosen actions and the position i *)
(* of the loop that applies them.                                            *)

NeatMaxDepth == 3
NeatMaxSets == 10
NeatMaxBranching == 8
RuntimeMaxSets == 10

\* Python's None where a network is expected
NoNetwork == "None"

RECURSIVE neat_dfs(_, _, _, _, _, _)
RECURSIVE neat_loop(_, _, _, _, _, _, _, _)

\* NeatAgent._generate_action_sequences.dfs on clones: the sequences so far
neat_dfs(p, team, g, depth, actions, out) ==
    IF Len(out) >= NeatMaxSets THEN out
    ELSE IF depth >= NeatMaxDepth THEN Append(out, actions)
    ELSE
      LET branch(c, legal) ==
            IF c.ok \/ legal = <<>> THEN Append(out, actions)
            ELSE neat_loop(p, team, c.g, depth, actions, out,
                           SubSeq(shuffled(legal, p.shuffle), 1,
                                  Min(Len(legal), NeatMaxBranching)),
                           1)
          checked(c) == branch(c, get_legal_actions(c.g, team))
      IN  checked(turn_check_end(g, team))

\* its "for action in legal_actions" loop from the i-th round on
neat_loop(p, team, g, depth, actions, out, legal, i) ==
    IF i > Len(legal) \/ Len(out) >= NeatMaxSets THEN out
    ELSE
      LET applied(r) ==
            IF ~r.ok THEN neat_loop(p, team, g, depth, actions, out, legal,
                                    i + 1)
            ELSE neat_loop(p, team, g, depth, actions,
                           neat_dfs(p, team, r.g, depth + 1,
                                    Append(actions, legal[i]), out),
                           legal, i + 1)
      IN  applied(apply_action(g, legal[i]))

generate_action_sequences(p, g, team) ==
    LET guaranteed(out) == IF out = <<>> THEN << <<>> >> ELSE out
    IN  guaranteed(neat_dfs(p, team, g, 0, <<>>, <<>>))

RECURSIVE generate_action_sets(_, _, _, _)
RECURSIVE action_sets_loop(_, _, _, _, _, _)

\* RuntimeNeatAgent._generate_action_sets.dfs on clones
generate_action_sets(team, g, actions, out) ==
    IF Len(out) >= RuntimeMaxSets THEN out
    ELSE
      LET ended_or(legal, c) ==
            IF c.ok THEN Append(out, actions)
            ELSE action_sets_loop(team, c.g, actions, out, legal, 1)
          branch(legal) ==
            IF legal = <<>> THEN Append(out, actions)
            ELSE ended_or(legal, turn_check_end(g, team))
      IN  branch(get_legal_actions(g, team))

action_sets_loop(team, g, actions, out, legal, i) ==
    IF i > Len(legal) \/ Len(out) >= RuntimeMaxSets THEN out
    ELSE
      LET applied(r) ==
            IF ~r.ok THEN action_sets_loop(team, g, actions, out, legal,
                                           i + 1)
            ELSE action_sets_loop(team, g, actions,
                                  generate_action_sets(team, r.g,
                                      Append(actions, legal[i]), out),
                                  legal, i + 1)
      IN  applied(apply_action(g, legal[i]))

RECURSIVE best_set_from(_, _, _, _, _, _, _)
\* "for actions in all_action_sets": simulate on a clone, score the result
\* with the network, keep the first strictly better sequence
best_set_from(brain, g, team, sets, i, best_score, best_set) ==
    IF i > Len(sets) THEN best_set
    ELSE
      LET kept(score) ==
            IF score > best_score
               THEN best_set_from(brain, g, team, sets, i + 1, score,
                                  sets[i])
               ELSE best_set_from(brain, g, team, sets, i + 1, best_score,
                                  best_set)
      IN  kept(eval_snapshot([brain |-> brain], apply_all(g, sets[i], 1),
                             team))

get_next_actions(p, g, brain, team) ==
    best_set_from(brain, g, team, generate_action_sequences(p, g, team), 1,
                  ParBestScore, <<>>)

plan_turn_actions(g, brain, team) ==
    best_set_from(brain, g, team, generate_action_sets(team, g, <<>>, <<>>),
                  1, ParBestScore, <<>>)

\* a variant that plays the first legal action when it has no evaluator
execute_next_actions_fallback(p, g, net, brain, team) ==
    IF net = NoNetwork /\ brain = NoNetwork
       THEN [declined |-> FALSE,
             actions |-> SubSeq(get_legal_actions(g, team), 1, 1)]
       ELSE [declined |-> FALSE,
             actions |-> get_next_actions(p, g,
                             IF net # NoNetwork THEN net ELSE brain, team)]

\* NeatAgent.execute_next_actions up to its "for action in actions" loop:
\* whether it returned at once, and the actions it is going to apply
execute_next_actions(p, g, net, brain, team) ==
    IF net = NoNetwork /\ brain = NoNetwork
       THEN [declined |-> TRUE, actions |-> <<>>]
       ELSE [declined |-> FALSE,
             actions |-> get_next_actions(p, g,
                             IF net # NoNetwork THEN net ELSE brain, team)]

\* hasattr(agent, "play_turn")
has_play_turn(agent) == agent = "RuntimeNeatAgent"

AgentCalls ==
    {[phase |-> "idle", entry |-> "execute_next_actions",
      agent |-> "NeatAgent", net |-> n, brain |-> b, team |-> t,
      shuffle |-> sh, before |-> None, declined |-> FALSE,
      actions |-> <<>>, i |-> 1] :
        n \in {NoNetwork, "material"}, b \in {NoNetwork, "approach"}, t \in Teams,
        sh \in Shuffles}
    \cup
    {[phase |-> "idle", entry |-> "run_ai_turn",
      agent |-> a[1], net |-> NoNetwork, brain |-> a[2], team |-> t,
      shuffle |-> "keep", before |-> None, declined |-> FALSE,
      actions |-> <<>>, i |-> 1] :
        a \in {<<"RuntimeNeatAgent", "material">>,
               <<"RuntimeNeatAgent", "approach">>,
               <<"BasicAgent", NoNetwork>>, <<"NoneType", NoNetwork>>},
        t \in Teams}

InitAgent ==
    /\ gs \in MinimaxBoards \cup {RangedBoard}
    /\ ag \in {[call EXCEPT !.before = gs] : call \in AgentCalls}
    /\ stack = <<>>
    /\ last = [op |-> "init", ok |-> TRUE]
    /\ ended = [t \in Teams |-> NoCheck]
    /\ attacked = {}
    /\ exhausted = {}
    /\ plan = NoPlan
    /\ steps = 0
    /\ dq = NoDamageQuery
    /\ mcts = NoMcts
    /\ mm = NoMinimax
    /\ tr = NoTrainer

\* the caller's turn_begin_reset(team) before it asks the agent
AgentTurnBegin ==
    /\ ag.phase = "idle"
    /\ gs' = turn_begin_reset(gs, ag.team)
    /\ ag' = [ag EXCEPT !.phase = "asked", !.before = gs']
    /\ UNCHANGED <<stack, last, ended, attacked, exhausted, plan, steps, dq,
                   mcts, mm, tr>>

\* NeatAgent.execute_next_actions(game_api, net, team_id)
ExecuteNextActions ==
    /\ ag.phase = "asked"
    /\ ag.entry = "execute_next_actions"
    /\ LET decided(r) ==
             ag' = [ag EXCEPT
                      !.phase = IF r.declined THEN "returned"
                                ELSE "applying",
                      !.declined = r.declined,
                      !.actions = r.actions]
       IN  decided(execute_next_actions([shuffle |-> ag.shuffle], gs,
                                        ag.net, ag.brain, ag.team))
    /\ UNCHANGED gs
    /\ UNCHANGED <<stack, last, ended, attacked, exhausted, plan, steps, dq,
                   mcts, mm, tr>>

\* GameAPI.run_ai_turn(team_id): play_turn of a compatible agent, which
\* plans the turn, or "return None"
RunAiTurn ==
    /\ ag.phase = "asked"
    /\ ag.entry = "run_ai_turn"
    /\ IF has_play_turn(ag.agent)
          THEN ag' = [ag EXCEPT
                        !.phase = "applying",
                        !.actions = plan_turn_actions(gs, ag.brain, ag.team)]
          ELSE ag' = [ag EXCEPT !.phase = "returned", !.declined = TRUE]
    /\ UNCHANGED gs
    /\ UNCHANGED <<stack, last, ended, attacked, exhausted, plan, steps, dq,
                   mcts, mm, tr>>

\* one round of "for action in actions: game_api.apply_action(action)"
ApplyChosen ==
    /\ ag.phase = "applying"
    /\ IF ag.i > Len(ag.actions)
          THEN /\ ag' = [ag EXCEPT !.phase = "returned"]
               /\ UNCHANGED gs
          ELSE /\ gs' = apply_action(gs, ag.actions[ag.i]).g
               /\ ag' = [ag EXCEPT !.i = @ + 1]
    /\ UNCHANGED <<stack, last, ended, attacked, exhausted, plan, steps, dq,
                   mcts, mm, tr>>

NextAgent ==
    \/ AgentTurnBegin
    \/ ExecuteNextActions
    \/ RunAiTurn
    \/ ApplyChosen

SpecAgent == InitAgent /\ [][NextAgent]_vars

\* the call has no evaluator: no network passed and no brain attached, or
\* no compatible agent configured
no_evaluator(a) ==
    \/ a.entry = "execute_next_actions" /\ a.net = NoNetwork /\ a.brain = NoNetwork
    \/ a.entry = "run_ai_turn" /\ ~has_play_turn(a.agent)

\* C20 -- An agent without an evaluator declines to act: once it has been
\* asked to play a turn with no network passed and no brain attached, or
\* with no compatible agent configured, the call returns at once, it has
\* chosen and applied no action (random or otherwise), and the game state
\* is the state the call began with.
C20_DeclinesWithoutEvaluator ==
    (ag.phase \in {"applying", "returned"} /\ no_evaluator(ag))
      => /\ ag.phase = "returned"
         /\ ag.declined
         /\ ag.actions = <<>>
         /\ ag.i = 1
         /\ gs = ag.before

\* a NeatAgent without network or brain has returned although its team had
\* a move and an attack to choose from
C20_Witness ==
    /\ ag.phase = "returned"
    /\ ag.entry = "execute_next_actions"
    /\ ag.net = NoNetwork
    /\ ag.brain = NoNetwork
    /\ \E act \in Range(get_legal_actions(gs, ag.team)) : act.type = "attack"
    /\ \E act \in Range(get_legal_actions(gs, ag.team)) : act.type = "move"

-----------------------------------------------------------------------------
(* ai/agents/agent_factory.py, training_agent_factory.py, neat_agent.py    *)
(* and ActionPlannerReversible.plan (SpecFactory).  ag is one agent from   *)
(* its construction to the end of its first turn: the factory and agent    *)
(* type asked for, the keyword the planner's constructor accepts for its   *)
(* sequence limit (the repository holds a planner module with max_sets and *)
(* one with dfs_action_sets_limit), the exploration rate the planner was   *)
(* built with in hundredths, and for a NeatAgent's turn whether plan took  *)
(* its random branch, the sequence it returned and the best-scoring one.   *)

Factories == {"AgentFactory", "TrainingAgentFactory"}
AgentTypes == {"NEATAgent", "MinimaxAgent", "MCTSAgent"}
PlannerKeywords == {"max_sets", "dfs_action_sets_limit"}

\* NeatAgent.__init__ defaults: max_sets, max_branching, 100 * exploration
NeatAgentMaxSets == 500
NeatAgentMaxBranching == 14
NeatAgentExploration == 5

\* the keyword an agent's constructor passes to ActionPlannerReversible
keyword_of(agent_type) ==
    IF agent_type = "NEATAgent" THEN "max_sets" ELSE "dfs_action_sets_limit"

\* AgentFactory.create and TrainingAgentFactory.create: the agent's planner,
\* or the TypeError of a keyword the planner's constructor does not know
create(agent_type, accepted) ==
    IF keyword_of(agent_type) # accepted
       THEN [built |-> FALSE, exploration_rate |-> 0]
    ELSE IF agent_type = "NEATAgent"
       THEN [built |-> TRUE, exploration_rate |-> NeatAgentExploration]
    ELSE [built |-> TRUE, exploration_rate |-> 0]

RECURSIVE plan_best(_, _, _, _, _, _, _)
\* "for seq in sequences": replay on a fresh clone, score, keep the first
\* strictly better sequence
plan_best(brain, g, team, sequences, i, best_score, best) ==
    IF i > Len(sequences) THEN best
    ELSE
      LET kept(score) ==
            IF score > best_score
               THEN plan_best(brain, g, team, sequences, i + 1, score,
                              sequences[i])
               ELSE plan_best(brain, g, team, sequences, i + 1, best_score,
                              best)
      IN  kept(eval_snapshot([brain |-> brain],
                             apply_all(start_turn(g, team), sequences[i], 1),
                             team))

\* ActionPlannerReversible.plan: every [explored, seq, best] it can return;
\* random.random() < exploration_rate can go either way when the rate is
\* positive, and random.choice can return any candidate
planner_plan(p, g, team, brain) ==
    LET outcomes(sequences, best) ==
          IF sequences = <<>>
             THEN {[explored |-> FALSE, seq |-> <<>>, best |-> <<>>]}
             ELSE {[explored |-> FALSE, seq |-> best, best |-> best]}
                  \cup
                  (IF p.exploration_rate > 0
                      THEN {[explored |-> TRUE, seq |-> sequences[i],
                             best |-> best] : i \in DOMAIN sequences}
                      ELSE {})
        scored(sequences) ==
          outcomes(sequences,
                   plan_best(brain, g, team, sequences, 1, NegInf, <<>>))
    IN  scored(plan_sequences(p, g, team))

InitFactory ==
    /\ gs \in MinimaxBoards
    /\ ag \in {[phase |-> "config", factory |-> f, agent_type |-> a,
                accepted |-> k, brain |-> b, team |-> t, shuffle |-> sh,
                exploration_rate |-> 0, explored |-> FALSE,
                seq |-> <<>>, best |-> <<>>] :
                  f \in Factories, a \in AgentTypes, k \in PlannerKeywords,
                  b \in {"material", "approach"}, t \in Teams,
                  sh \in Shuffles}
    /\ stack = <<>>
    /\ last = [op |-> "init", ok |-> TRUE]
    /\ ended = [t \in Teams |-> NoCheck]
    /\ attacked = {}
    /\ exhausted = {}
    /\ plan = NoPlan
    /\ steps = 0
    /\ dq = NoDamageQuery
    /\ mcts = NoMcts
    /\ mm = NoMinimax
    /\ tr = NoTrainer

\* the factory builds the agent, or its constructor raises
FactoryCreate ==
    /\ ag.phase = "config"
    /\ LET made(r) ==
             ag' = [ag EXCEPT
                      !.phase = IF r.built THEN "built" ELSE "raised",
                      !.exploration_rate = r.exploration_rate]
       IN  made(create(ag.agent_type, ag.accepted))
    /\ UNCHANGED <<gs, stack, last, ended, attacked, exhausted, plan, steps,
                   dq, mcts, mm, tr>>

\* the caller's start_turn(team) and NeatAgent.play_turn up to the return of
\* planner.plan
NeatPlan ==
    /\ ag.phase = "built"
    /\ ag.agent_type = "NEATAgent"
    /\ gs' = start_turn(gs, ag.team)
    /\ \E r \in planner_plan(
                  [dfs_action_sets_limit |-> NeatAgentMaxSets,
                   dfs_branching_limit |-> NeatAgentMaxBranching,
                   exploration_rate |-> ag.exploration_rate,
                   shuffle |-> ag.shuffle],
                  start_turn(gs, ag.team), ag.team, ag.brain) :
         ag' = [ag EXCEPT !.phase = "planned", !.explored = r.explored,
                          !.seq = r.seq, !.best = r.best]
    /\ UNCHANGED <<stack, last, ended, attacked, exhausted, plan, steps, dq,
                   mcts, mm, tr>>

\* "for act in actions: game_api.apply_action(act)"
NeatExecute ==
    /\ ag.phase = "planned"
    /\ gs' = apply_all(gs, ag.seq, 1)
    /\ ag' = [ag EXCEPT !.phase = "done"]
    /\ UNCHANGED <<stack, last, ended, attacked, exhausted, plan, steps, dq,
                   mcts, mm, tr>>

NextFactory ==
    \/ FactoryCreate
    \/ NeatPlan
    \/ NeatExecute

SpecFactory == InitFactory /\ [][NextFactory]_vars

\* C21 -- Exploration only in self-play: an agent built by the factory for
\* competitive play (AgentFactory: runtime play and benchmark matches) has
\* a planner with exploration rate 0, its plan never takes the random
\* branch, and the sequence it executes is the best-scoring candidate.
C21_ExplorationOnlyInSelfPlay ==
    (ag.factory = "AgentFactory" /\ ag.phase \in {"built", "planned", "done"})
      => /\ ag.exploration_rate = 0
         /\ ~ag.explored
         /\ ag.seq = ag.best

-----------------------------------------------------------------------------
(* ai/planning/action_planning.py: the three planners side by side         *)
(* (SpecPlanner).  plan is one planning episode on the real board gs: the  *)
(* planner asked ("reversible", "cloning" or "beam"), its limits p, the    *)
(* team, the list of sequences it returned, and then the replay of one of  *)
(* them, action by action, on a fresh copy of the board after              *)
(* start_turn(team): replay is that copy, i the next action, ok tells that *)
(* every action so far succeeded.                                          *)

RECURSIVE clone_dfs(_, _, _, _, _)
RECURSIVE clone_loop(_, _, _, _, _, _, _)

\* ActionPlanner._dfs: every branch on its own clone; the sequences so far
clone_dfs(p, team, g, actions, out) ==
    IF Len(out) >= p.dfs_action_sets_limit THEN out
    ELSE
      LET branch(c, legal) ==
            IF c.ok \/ legal = <<>> THEN Append(out, actions)
            ELSE clone_loop(p, team, c.g, actions, out,
                            SubSeq(shuffled(legal, p.shuffle), 1,
                                   Min(Len(legal), p.dfs_branching_limit)),
                            1)
          checked(c) == branch(c, get_legal_actions(c.g, team))
      IN  checked(turn_check_end(g, team))

\* its "for act in legal" loop from the i-th round on
clone_loop(p, team, g, actions, out, legal, i) ==
    IF i > Len(legal) \/ Len(out) >= p.dfs_action_sets_limit THEN out
    ELSE
      LET applied(r) ==
            IF ~r.ok THEN clone_loop(p, team, g, actions, out, legal, i + 1)
            ELSE clone_loop(p, team, g, actions,
                            clone_dfs(p, team, r.g,
                                      Append(actions, legal[i]), out),
                            legal, i + 1)
      IN  applied(apply_action(g, legal[i]))

\* ActionPlanner.plan up to the end of its search
clone_sequences(p, game_board, team_id) ==
    clone_dfs(p, team_id, start_turn(game_board, team_id), <<>>, <<>>)

RECURSIVE beam_children(_, _, _, _, _)
\* "for act in legal": the candidates of one frontier node
beam_children(p, team, node, legal, i) ==
    IF i > Len(legal) THEN <<>>
    ELSE
      LET made(r) ==
            IF ~r.ok THEN beam_children(p, team, node, legal, i + 1)
            ELSE <<[sim |-> r.g, seq |-> Append(node.seq, legal[i]),
                    score |-> eval_snapshot(p, r.g, team)]>>
                   \o beam_children(p, team, node, legal, i + 1)
      IN  made(apply_action(node.sim, legal[i]))

RECURSIVE beam_expand(_, _, _, _, _, _)
\* "for sim, seq, _ in frontier": [candidates, finished] after the nodes
\* from the i-th on
beam_expand(p, team, frontier, i, candidates, finished) ==
    IF i > Len(frontier)
       THEN [candidates |-> candidates, finished |-> finished]
    ELSE
      LET done(c) ==
            beam_expand(p, team, frontier, i + 1, candidates,
                        Append(finished,
                               [seq |-> frontier[i].seq,
                                score |-> eval_snapshot(p, c.g, team)]))
          branch(c, legal) ==
            IF c.ok \/ legal = <<>> THEN done(c)
            ELSE beam_expand(
                   p, team, frontier, i + 1,
                   candidates \o
                     beam_children(p, team,
                                   [frontier[i] EXCEPT !.sim = c.g],
                                   SubSeq(shuffled(legal, p.shuffle), 1,
                                          Min(Len(legal),
                                              p.dfs_branching_limit)),
                                   1),
                   finished)
          checked(c) == branch(c, get_legal_actions(c.g, team))
      IN  checked(turn_check_end(frontier[i].sim, team))

RECURSIVE beam_rounds(_, _, _, _)
\* "while frontier": the finished list when the loop is left
beam_rounds(p, team, frontier, finished) ==
    LET next(e) ==
          IF e.candidates = <<>>
             THEN IF e.finished = <<>>
                     THEN [i \in DOMAIN frontier |->
                             [seq |-> frontier[i].seq,
                              score |-> frontier[i].score]]
                     ELSE e.finished
             ELSE beam_rounds(p, team,
                              SubSeq(sort_desc(e.candidates, 1), 1,
                                     Min(Len(e.candidates), p.beam_width)),
                              e.finished)
    IN  next(beam_expand(p, team, frontier, 1, <<>>, finished))

\* BeamSearchPlannerFullTurn.plan_sequences
beam_sequences(p, game_board, team_id) ==
    LET rooted(root) ==
          beam_rounds(p, team_id,
                      <<[sim |-> root, seq |-> <<>>,
                         score |-> eval_snapshot(p, root, team_id)]>>,
                      <<>>)
        ordered(finished) ==
          [i \in DOMAIN finished |-> finished[i].seq]
    IN  ordered(sort_desc(rooted(start_turn(game_board, team_id)), 1))

Planners == {"reversible", "cloning", "beam"}

\* <<dfs_action_sets_limit, dfs_branching_limit, beam_width>>
PlannerLimits == {<<200, 12, 3>>, <<3, 12, 1>>, <<200, 2, 3>>}

PlannerParams ==
    {[dfs_action_sets_limit |-> l[1], dfs_branching_limit |-> l[2],
      beam_width |-> l[3], brain |-> "material", shuffle |-> sh] :
        l \in PlannerLimits, sh \in Shuffles}

sequences_of(planner, p, game_board, team_id) ==
    CASE planner = "reversible" -> plan_sequences(p, game_board, team_id)
      [] planner = "cloning" -> clone_sequences(p, game_board, team_id)
      [] OTHER -> beam_sequences(p, game_board, team_id)

\* the simulation a planner leaves behind: the reversible planner's one
\* simulation after the last undo, the root simulation of the others
simulation_of(planner, p, game_board, team_id) ==
    IF planner = "reversible"
       THEN dfs(p, team_id, start_turn(game_board, team_id), <<>>, <<>>).g
       ELSE start_turn(game_board, team_id)

InitPlanner ==
    /\ gs \in InitBoards \cup MinimaxBoards
    /\ plan \in {[phase |-> "idle", planner |-> pl, p |-> p, team |-> t,
                  sequences |-> <<>>, k |-> 0, i |-> 1, replay |-> gs,
                  ok |-> TRUE] :
                    pl \in Planners, p \in PlannerParams, t \in Teams}
    /\ stack = <<>>
    /\ last = [op |-> "init", ok |-> TRUE]
    /\ ended = [t \in Teams |-> NoCheck]
    /\ attacked = {}
    /\ exhausted = {}
    /\ steps = 0
    /\ dq = NoDamageQuery
    /\ mcts = NoMcts
    /\ mm = NoMinimax
    /\ tr = NoTrainer
    /\ ag = NoAgent

\* the planner is run on the real board
PlanSequences ==
    /\ plan.phase = "idle"
    /\ plan' = [plan EXCEPT
                  !.phase = "planned",
                  !.sequences = sequences_of(plan.planner, plan.p,
                                             fast_clone(gs).board,
                                             plan.team)]
    /\ gs' = original_after(gs, fast_clone(gs),
                            simulation_of(plan.planner, plan.p,
                                          fast_clone(gs).board, plan.team))
    /\ UNCHANGED <<stack, last, ended, attacked, exhausted, steps, dq,
                   mcts, mm, tr, ag>>

\* a returned sequence is taken to a fresh copy of the board, after
\* start_turn(team)
ReplayStart ==
    /\ plan.phase = "planned"
    /\ \E k \in DOMAIN plan.sequences :
         plan' = [plan EXCEPT !.phase = "replay", !.k = k, !.i = 1,
                              !.replay = start_turn(fast_clone(gs).board,
                                                    plan.team)]
    /\ gs' = original_after(gs, fast_clone(gs),
                            start_turn(fast_clone(gs).board, plan.team))
    /\ UNCHANGED <<stack, last, ended, attacked, exhausted, steps, dq,
                   mcts, mm, tr, ag>>

\* its next action is applied, or the replay is over
ReplayStep ==
    /\ plan.phase = "replay"
    /\ IF plan.i > Len(plan.sequences[plan.k])
          THEN /\ plan' = [plan EXCEPT !.phase = "replayed"]
               /\ UNCHANGED gs
          ELSE LET applied(r) ==
                     /\ plan' = [plan EXCEPT !.i = @ + 1, !.replay = r.g,
                                             !.ok = @ /\ r.ok]
                     /\ gs' = original_after(gs, fast_clone(gs), r.g)
               IN  applied(apply_action(plan.replay,
                                        plan.sequences[plan.k][plan.i]))
    /\ UNCHANGED <<stack, last, ended, attacked, exhausted, steps, dq,
                   mcts, mm, tr, ag>>

NextPlanner ==
    \/ PlanSequences
    \/ ReplayStart
    \/ ReplayStep

SpecPlanner == InitPlanner /\ [][NextPlanner]_vars

\* C22 -- Returned sequences are complete turns: when a sequence returned
\* by the reversible planner or by beam search has been replayed from the
\* given board after start_turn(team), every one of its actions succeeded
\* and the turn is over: turn_check_end(team) is true or the team has no
\* legal action left.
C22_CompleteTurns ==
    (plan.phase = "replayed" /\ plan.planner \in {"reversible", "beam"})
      => /\ plan.ok
         /\ \/ turn_check_end(plan.replay, plan.team).ok
            \/ get_legal_actions(plan.replay, plan.team) = <<>>

\* C23 -- Reversible and cloning planners agree: with the same limits and
\* the legal list left in its order at every node, the list of sequences
\* returned by the reversible planner (apply in place, then undo) is the
\* list the cloning planner (a clone per branch) enumerates from the same
\* board.
C23_PlannersAgree ==
    (plan.phase # "idle" /\ plan.planner = "reversible"
       /\ plan.p.shuffle = "keep")
      => plan.sequences = clone_sequences(plan.p, gs, plan.team)

-----------------------------------------------------------------------------
(* The minimax cache (SpecMinimax).  A root child that EvalChild has       *)
(* searched is a node where the opponent acts: minimax(child_sim, depth,   *)
(* is_max = False) asks _get_children for the opponent's sequences there.  *)

RECURSIVE all_apply(_, _, _)
\* every action of seq, applied in order from g, returns True
all_apply(g, seq, i) ==
    IF i > Len(seq) THEN TRUE
    ELSE LET step(r) == r.ok /\ all_apply(r.g, seq, i + 1)
         IN  step(apply_action(g, seq[i]))

\* the root children the loop has searched and that were expanded
searched_nodes ==
    {mm.children[i].sim : i \in
        {j \in 1..(mm.i - 1) : ~is_game_over(mm.children[j].sim)}}

\* C24 -- Cached minimax sequences fit every node: at every searched node
\* where the opponent acts, the sequences cached for the opponent are the
\* sequences the planner produces from that node, and every action of
\* every cached sequence applies successfully from the node's state after
\* start_turn(opponent).
C24_CachedSequencesFit ==
    (mm.phase \in {"loop", "done"} /\ mm.p.depth > 0)
      => \A node \in searched_nodes :
            LET opponent == opponent_of(mm.team)
                cached == mm.cache[opponent][1]
            IN  /\ cached = plan_sequences(mm.p, node, opponent)
                /\ \A k \in DOMAIN cached :
                      all_apply(start_turn(node, opponent), cached[k], 1)

\* the sequences a cache entry holds, <<>> when the team has no entry
entry_of(cache, team_id) ==
    IF cache[team_id] = <<>> THEN <<>> ELSE cache[team_id][1]

\* C25 -- Minimax cache lifetime: during one execute_next_actions call the
\* planner is run at most once per team id, and the call starts from an
\* empty cache: once its root is expanded, the agent's own entry holds the
\* sequences planned from the board of this call, whatever an earlier call
\* left in the cache, and the opponent's entry is empty until the first
\* child is searched.
C25_CacheLifetime ==
    /\ \A t \in Teams : runs_of(mm.cache, t) <= 1
    /\ (mm.phase = "loop" /\ mm.i = 1)
         => /\ entry_of(mm.cache, mm.team)
                 = plan_sequences(mm.p, mm.root, mm.team)
            /\ mm.cache[opponent_of(mm.team)] = <<>>

\* a later call has expanded its root although the earlier call left
\* other sequences for the agent and an entry for the opponent
C25_Witness ==
    /\ mm.phase = "loop"
    /\ mm.i = 1
    /\ mm.call = 2
    /\ mm.earlier[opponent_of(mm.team)] # <<>>
    /\ entry_of(mm.earlier, mm.team) # entry_of(mm.cache, mm.team)
    /\ runs_of(mm.cache, mm.team) = 1

\* C26 -- Alpha-beta preserves the minimax value: at every root child the
\* agent is about to search, for every depth up to the agent's and for a
\* MAX as for a MIN node, _minimax called with alpha = -infinity and
\* beta = +infinity returns the value of plain minimax without cutoffs
\* over the same children.
C26_AlphaBetaPreservesValue ==
    (mm.phase = "loop" /\ mm.i <= Len(mm.children))
      => \A depth \in 0..mm.p.depth : \A is_max \in BOOLEAN :
            minimax(mm.p, mm.cache, mm.children[mm.i].sim, mm.team, depth,
                    NegInf, PosInf, is_max).value
              = plain_minimax(mm.p, mm.cache, mm.children[mm.i].sim,
                              mm.team, depth, is_max).value

\* the search of the next root child leaves a loop by a cutoff
C26_Witness ==
    /\ mm.phase = "loop"
    /\ mm.i <= Len(mm.children)
    /\ minimax(mm.p, mm.cache, mm.children[mm.i].sim, mm.team, mm.p.depth,
               NegInf, PosInf, FALSE).cuts > 0

-----------------------------------------------------------------------------
(* The root bandit on a board (SpecMCTS): the arms are the root moves the   *)
(* planner generates from the real board, a rollout's value is drawn from  *)
(* RolloutValues, and the best arm's sequence is applied to the real game. *)

\* _generate_root_moves: the planner's sequences, each replayed from the
\* root board and scored, best first, cut to max_root_children.  The
\* sequential agent cuts only when max_root_children > 0.
generate_root_moves(p, game_board, team_id, mode) ==
    LET scored(sequences) ==
          [i \in DOMAIN sequences |->
              [sequence |-> sequences[i],
               score |-> eval_snapshot(
                           p,
                           apply_all(start_turn(start_turn(game_board,
                                                           team_id),
                                                team_id),
                                     sequences[i], 1),
                           team_id)]]
        pruned(sorted) ==
          IF mode = "sequential" /\ p.max_root_children <= 0 THEN sorted
          ELSE SubSeq(sorted, 1, Min(Len(sorted), p.max_root_children))
        stats(kept) ==
          [i \in DOMAIN kept |->
              [sequence |-> kept[i].sequence, visits |-> 0,
               value_sum |-> 0]]
    IN  stats(pruned(sort_desc(scored(plan_sequences(p, game_board,
                                                     team_id)), 1)))

\* the simulation _generate_root_moves wrote to last: the replay of the
\* last sequence, or the planner's simulation when there is none
root_moves_simulation(p, game_board, team_id) ==
    LET last_of(sequences) ==
          IF sequences = <<>>
             THEN simulation_of("reversible", p, game_board, team_id)
             ELSE apply_all(start_turn(start_turn(game_board, team_id),
                                       team_id),
                            sequences[Len(sequences)], 1)
    IN  last_of(plan_sequences(p, game_board, team_id))

RECURSIVE random_turn(_, _)
\* the boards one random turn of a rollout can end in: legal actions are
\* drawn until the turn, the list of legal actions or the game is over
random_turn(g, current) ==
    LET drawn(r) == IF is_game_over(r) THEN {r} ELSE random_turn(r, current)
        branch(c, legal) ==
          IF c.ok \/ legal = <<>> THEN {c.g}
          ELSE UNION {drawn(apply_action(c.g, legal[i]).g) :
                        i \in DOMAIN legal}
        checked(c) == branch(c, get_legal_actions(c.g, current))
    IN  checked(turn_check_end(g, current))

RECURSIVE rollout(_, _, _)
\* _rollout: the boards the simulation can be left in after `turns` random
\* turns, the sides alternating
rollout(sim, current, turns) ==
    IF turns = 0 \/ is_game_over(sim) THEN {sim}
    ELSE UNION {rollout(after, opponent_of(current), turns - 1) :
                  after \in random_turn(start_turn(sim, current), current)}

RECURSIVE apply_until_over(_, _, _)
\* "for act in child.sequence: sim.apply_action(act); if game over: break"
apply_until_over(g, seq, i) ==
    IF i > Len(seq) THEN g
    ELSE LET stopped(r) ==
               IF is_game_over(r) THEN r ELSE apply_until_over(r, seq, i + 1)
         IN  stopped(apply_action(g, seq[i]).g)

\* the boards the simulation of one iteration can end in
iteration_simulations(p, game_board, team_id, sequence) ==
    LET rolled(sim) ==
          rollout(IF is_game_over(sim) THEN sim
                  ELSE start_turn(sim, opponent_of(team_id)),
                  opponent_of(team_id), p.rollout_turns)
    IN  rolled(apply_until_over(start_turn(game_board, team_id),
                                sequence, 1))

RolloutTurns == 2

MctsParams ==
    {[dfs_action_sets_limit |-> DfsActionSetsLimit,
      dfs_branching_limit |-> DfsBranchingLimit,
      max_root_children |-> k, rollout_turns |-> RolloutTurns,
      brain |-> "material", shuffle |-> "keep"] :
        k \in 0..MaxArms}

InitMCTS ==
    /\ gs \in MinimaxBoards
    /\ mcts \in {[phase |-> "start", mode |-> m, iterations |-> n,
                  team |-> 1, p |-> p, root |-> gs, children |-> <<>>,
                  total_visits |-> 0, it |-> 0, pending |-> <<>>,
                  best |-> 0, applied |-> <<>>] :
                    m \in {"sequential", "parallel"},
                    n \in 1..MaxIterations, p \in MctsParams}
    /\ stack = <<>>
    /\ last = [op |-> "init", ok |-> TRUE]
    /\ ended = [t \in Teams |-> NoCheck]
    /\ attacked = {}
    /\ exhausted = {}
    /\ plan = NoPlan
    /\ steps = 0
    /\ tr = NoTrainer
    /\ ag = NoAgent
    /\ dq = NoDamageQuery
    /\ mm = NoMinimax

\* execute_next_actions up to the first round: the root arms are generated
\* on clones of the real board
GenerateRootMoves ==
    /\ mcts.phase = "start"
    /\ mcts' = [mcts EXCEPT
                  !.phase = "run",
                  !.children = generate_root_moves(mcts.p,
                                                   fast_clone(gs).board,
                                                   mcts.team, mcts.mode)]
    /\ gs' = original_after(gs, fast_clone(gs),
                            root_moves_simulation(mcts.p,
                                                  fast_clone(gs).board,
                                                  mcts.team))
    /\ UNCHANGED <<stack, last, ended, attacked, exhausted, plan, steps, dq,
                   mm, tr, ag>>

\* "if not root_children: return"
NoRootMoves ==
    /\ mcts.phase = "run"
    /\ mcts.children = <<>>
    /\ mcts' = [mcts EXCEPT !.phase = "done"]
    /\ UNCHANGED <<gs, stack, last, ended, attacked, exhausted, plan, steps,
                   dq, mm, tr, ag>>

\* one round of the sequential agent: selection, simulation and rollout on
\* a clone of the real board, back-propagation
Iteration ==
    /\ mcts.phase = "run"
    /\ mcts.mode = "sequential"
    /\ mcts.children # <<>>
    /\ mcts.it < mcts.iterations
    /\ LET idx == select_child_ucb(mcts.children, mcts.total_visits,
                                   mcts.mode)
       IN  /\ \E value \in RolloutValues :
                 mcts' = [mcts EXCEPT
                            !.children = backprop(mcts.children, idx, value),
                            !.total_visits = @ + 1,
                            !.it = @ + 1]
           /\ \E sim \in iteration_simulations(
                            mcts.p, fast_clone(gs).board, mcts.team,
                            mcts.children[idx].sequence) :
                 gs' = original_after(gs, fast_clone(gs), sim)
    /\ UNCHANGED <<stack, last, ended, attacked, exhausted, plan, steps,
                   dq, mm, tr, ag>>

\* one round of the process-pool agent: selection and executor.submit; the
\* worker rebuilds its simulation from a snapshot in another process
Submit ==
    /\ mcts.phase = "run"
    /\ mcts.mode = "parallel"
    /\ mcts.children # <<>>
    /\ mcts.it < mcts.iterations
    /\ mcts' = [mcts EXCEPT
                  !.pending = Append(@, select_child_ucb(mcts.children,
                                                         mcts.total_visits,
                                                         mcts.mode)),
                  !.it = @ + 1]
    /\ UNCHANGED <<gs, stack, last, ended, attacked, exhausted, plan, steps,
                   dq, mm, tr, ag>>

\* the process-pool agent collects one result, in the order of submission
Collect ==
    /\ mcts.phase = "run"
    /\ mcts.mode = "parallel"
    /\ mcts.it = mcts.iterations
    /\ mcts.pending # <<>>
    /\ \E value \in RolloutValues :
         mcts' = [mcts EXCEPT
                    !.children = backprop(mcts.children, Head(mcts.pending),
                                          value),
                    !.total_visits = @ + 1,
                    !.pending = Tail(@)]
    /\ UNCHANGED <<gs, stack, last, ended, attacked, exhausted, plan, steps,
                   dq, mm, tr, ag>>

\* after the last round: the best arm is chosen and its sequence is
\* applied to the real game, action by action
ChooseBest ==
    /\ mcts.phase = "run"
    /\ mcts.children # <<>>
    /\ mcts.it = mcts.iterations
    /\ mcts.pending = <<>>
    /\ LET executed(best) ==
             /\ mcts' = [mcts EXCEPT
                           !.phase = "done", !.best = best,
                           !.applied = mcts.children[best].sequence]
             /\ gs' = apply_all(gs, mcts.children[best].sequence, 1)
       IN  executed(best_child(mcts.children))
    /\ UNCHANGED <<stack, last, ended, attacked, exhausted, plan, steps, dq,
                   mm, tr, ag>>

NextMCTS ==
    \/ GenerateRootMoves
    \/ NoRootMoves
    \/ Iteration
    \/ Submit
    \/ Collect
    \/ ChooseBest

SpecMCTS == InitMCTS /\ [][NextMCTS]_vars

RECURSIVE sum_visits(_, _)
sum_visits(children, i) ==
    IF i > Len(children) THEN 0
    ELSE children[i].visits + sum_visits(children, i + 1)

\* C9 -- MCTS visit conservation: when the agent has at least one root arm,
\* after its `iterations` rounds the visit counts of all root arms sum to
\* `iterations`, for the sequential and for the process-pool agent.
C9_VisitConservation ==
    (mcts.phase = "done" /\ mcts.children # <<>>)
        => sum_visits(mcts.children, 1) = mcts.iterations

C9_Witness ==
    /\ mcts.phase = "done"
    /\ mcts.mode = "parallel"
    /\ Len(mcts.children) >= 2
    /\ mcts.iterations >= 3
    /\ mcts.total_visits = mcts.iterations

\* a round is about to select its arm
selecting ==
    /\ mcts.phase = "run"
    /\ mcts.children # <<>>
    /\ mcts.it < mcts.iterations

\* C27 -- UCB selection sees all earlier results: whenever a round selects
\* its arm, the visit counts hold the result of every earlier round; an
\* arm selected while some arm is unvisited is itself unvisited; and when
\* the agent is done with iterations >= number of arms, every arm has been
\* visited.  For the sequential and for the process-pool agent.
C27_SelectionSeesEarlierResults ==
    /\ selecting
         => /\ sum_visits(mcts.children, 1) = mcts.it
            /\ (\E j \in DOMAIN mcts.children : mcts.children[j].visits = 0)
                 => mcts.children[select_child_ucb(
                        mcts.children, mcts.total_visits,
                        mcts.mode)].visits = 0
    /\ (mcts.phase = "done" /\ mcts.children # <<>>
          /\ mcts.iterations >= Len(mcts.children))
         => \A j \in DOMAIN mcts.children : mcts.children[j].visits >= 1

\* C28 -- MCTS final choice: when the agent is done, the actions applied
\* to the real game are exactly the sequence of one arm, no arm has more
\* visits than that arm, no arm with as many visits has a higher mean
\* value, and the real game is the root board with that sequence applied.
C28_FinalChoice ==
    (mcts.phase = "done" /\ mcts.children # <<>>)
      => /\ mcts.best \in DOMAIN mcts.children
         /\ \A j \in DOMAIN mcts.children :
               /\ mcts.children[j].visits <= mcts.children[mcts.best].visits
               /\ mcts.children[j].visits = mcts.children[mcts.best].visits
                    => mcts.children[j].value_sum
                         <= mcts.children[mcts.best].value_sum
         /\ mcts.applied = mcts.children[mcts.best].sequence
         /\ gs = apply_all(mcts.root, mcts.children[mcts.best].sequence, 1)

\* the arm played is not the first arm: it won on visits, or with as many
\* visits on its mean value, and its sequence changed the real game
C28_Witness ==
    /\ mcts.phase = "done"
    /\ Len(mcts.children) >= 2
    /\ mcts.best > 1
    /\ mcts.children[1].visits = mcts.children[mcts.best].visits
    /\ mcts.children[1].value_sum < mcts.children[mcts.best].value_sum
    /\ mcts.applied # <<>>
    /\ gs # mcts.root

-----------------------------------------------------------------------------
(* The three searches together (SpecSearch): a planning episode, a         *)
(* decision of the MCTS agent or the decisions of the minimax agent in a   *)
(* match.                                                                  *)

InitSearch == InitPlanner \/ InitMCTS \/ InitMinimax

NextSearch == NextPlanner \/ NextMCTS \/ NextMinimax

SpecSearch == InitSearch /\ [][NextSearch]_vars

\* C29 -- Search does not touch the real game: no step of sequence
\* generation, root scoring, MCTS iteration and rollout or minimax search
\* changes the real game; it changes only in the step that applies the
\* chosen sequence (and when the other side plays its turn).
C29_SearchLeavesGameAlone ==
    [][gs' # gs => (ChooseBest \/ Execute \/ OpponentTurn)]_vars

\* an MCTS agent has run all its rounds, each on a simulation that played
\* a non-empty sequence, and the real game is still the root board
C29_Witness ==
    /\ mcts.phase = "run"
    /\ mcts.mode = "sequential"
    /\ mcts.it = mcts.iterations
    /\ mcts.it >= 2
    /\ \A j \in DOMAIN mcts.children :
          mcts.children[j].visits > 0 => mcts.children[j].sequence # <<>>
    /\ gs = mcts.root

-----------------------------------------------------------------------------
(* The planners' limits (SpecPlanner).  A node of the search is the list   *)
(* of actions that leads to it; the actions expanded at a node that led to *)
(* a sequence are the actions that follow the node's list in the output.   *)

\* the actions that follow the first n actions of seq in the sequences
expanded_at(sequences, seq, n) ==
    {sequences[j][n + 1] :
       j \in {j \in DOMAIN sequences :
                /\ Len(sequences[j]) > n
                /\ SubSeq(sequences[j], 1, n) = SubSeq(seq, 1, n)}}

\* C30 -- Planner limits: the reversible and the cloning planner return
\* at most dfs_action_sets_limit sequences, at no node of the search do
\* more than dfs_branching_limit actions lead on to returned sequences,
\* and with a limit of at least one sequence at least one is returned.
C30_PlannerLimits ==
    (plan.phase = "planned" /\ plan.planner \in {"reversible", "cloning"})
      => /\ Len(plan.sequences) <= plan.p.dfs_action_sets_limit
         /\ \A k \in DOMAIN plan.sequences :
               \A n \in 0..(Len(plan.sequences[k]) - 1) :
                  Cardinality(expanded_at(plan.sequences,
                                          plan.sequences[k], n))
                    <= plan.p.dfs_branching_limit
         /\ plan.p.dfs_action_sets_limit >= 1 => Len(plan.sequences) >= 1

\* the root has more legal actions than the branching limit and as many
\* of them as the limit allows were expanded
C30_Witness ==
    /\ plan.phase = "planned"
    /\ plan.planner \in {"reversible", "cloning"}
    /\ plan.sequences # <<>>
    /\ Len(get_legal_actions(start_turn(gs, plan.team), plan.team))
         > plan.p.dfs_branching_limit
    /\ Cardinality(expanded_at(plan.sequences, <<>>, 0))
         = plan.p.dfs_branching_limit

\* the limit on the number of sequences stopped the search
SetsLimitReached ==
    /\ plan.phase = "planned"
    /\ plan.planner \in {"reversible", "cloning"}
    /\ Len(plan.sequences) = plan.p.dfs_action_sets_limit

-----------------------------------------------------------------------------
(* One turn of one team (SpecTurn): the loop of MCTSAgent._rollout, of the *)
(* planners' searches along one branch: after start_turn(team), while      *)
(* check_turn_end(team) is false and the list of legal actions is not      *)
(* empty, one of the legal actions is applied.  last.team is the team.     *)

TurnBoards == InitBoards \cup MinimaxBoards \cup {RangedBoard}

\* check_turn_end(team) is true or the team has no legal action
turn_over(g, team) ==
    \/ turn_check_end(g, team).ok
    \/ get_legal_actions(turn_check_end(g, team).g, team) = <<>>

InitTurn ==
    /\ \E b \in TurnBoards, team \in Teams :
         /\ gs = start_turn(b, team)
         /\ last = [op |-> "start_turn", ok |-> TRUE, team |-> team]
    /\ stack = <<>>
    /\ ended = [t \in Teams |-> NoCheck]
    /\ attacked = {}
    /\ exhausted = {}
    /\ plan = NoPlan
    /\ steps = 0
    /\ dq = NoDamageQuery
    /\ mcts = NoMcts
    /\ mm = NoMinimax
    /\ tr = NoTrainer
    /\ ag = NoAgent

\* the outcomes of one round of "while not sim.check_turn_end(current)":
\* each legal action, applied
turn_rounds(g, team) ==
    UNION { { [type |-> legal[i].type, r |-> apply_action(c, legal[i])] :
                i \in DOMAIN legal } :
            <<c, legal>> \in
                { <<b, get_legal_actions(b, team)>> :
                     b \in {turn_check_end(g, team).g} } }

\* one round of the loop: a legal action is drawn and applied
TurnStep ==
    /\ last.op # "over"
    /\ ~turn_over(gs, last.team)
    /\ \E o \in turn_rounds(gs, last.team) :
         /\ gs' = o.r.g
         /\ last' = [op |-> o.type, ok |-> o.r.ok, team |-> last.team]
    /\ UNCHANGED <<stack, ended, attacked, exhausted, plan, steps, dq, mcts,
                   mm, tr, ag>>

\* the loop is left
TurnLeave ==
    /\ last.op # "over"
    /\ turn_over(gs, last.team)
    /\ gs' = turn_check_end(gs, last.team).g
    /\ last' = [last EXCEPT !.op = "over"]
    /\ UNCHANGED <<stack, ended, attacked, exhausted, plan, steps, dq, mcts,
                   mm, tr, ag>>

NextTurn ==
    \/ TurnStep
    \/ TurnLeave

SpecTurn == InitTurn /\ [][NextTurn]_vars

\* NextTurn is enabled exactly in the states with last.op # "over": there
\* turn_over holds and TurnLeave can act, or it fails and TurnStep can.
TurnGoesOn == last.op # "over" => (turn_over(gs, last.team)
                \/ turn_rounds(gs, last.team) # {})

\* The loop goes on while it can: weak fairness of NextTurn,
\* WF_vars(NextTurn), with ENABLED <<NextTurn>>_vars written as
\* last.op # "over": the loop is left infinitely often or takes
\* infinitely many steps.
FairTurn == SpecTurn /\ ([]<>(last.op = "over") \/ []<><<NextTurn>>_vars)

\* C31 -- A turn always ends: after start_turn(team) every chain of legal
\* actions of the team is finite: the loop that applies them is left,
\* with turn_check_end(team) true or no legal action left.
C31_TurnEnds == <>(last.op = "over")

\* the loop was left after one unit of the team attacked and another moved
C31_Witness ==
    /\ last.op = "over"
    /\ turn_over(gs, last.team)
    /\ \E u, v \in Range(gs.units) :
          /\ gs.heap[u].team = last.team
          /\ gs.heap[v].team = last.team
          /\ gs.heap[u].has_attacked
          /\ ~gs.heap[v].has_attacked
          /\ gs.heap[v].move_points < UNIT_STATS[gs.heap[v].name].move_range

-----------------------------------------------------------------------------
(* One match (SpecMatch): SelfPlaySimulator.play_match and the benchmark's *)
(* _run_match_worker.  ag is the match: kind, max_turns, the loop variable *)
(* t, the team whose turn it is, turns_played and the log of the calls     *)
(* made on the match's game: [op, team, over], over being is_game_over()   *)
(* at the time of the call.  An agent's turn applies one of the full turns *)
(* of its team, or nothing.                                                *)

MaxTurns == 2

MatchKinds == {"selfplay", "benchmark"}

\* self-play calls turn_begin_reset(team), the benchmark start_turn(team)
turn_reset(kind, g, team) ==
    IF kind = "selfplay" THEN turn_begin_reset(g, team)
    ELSE start_turn(g, team)

\* what an agent may apply in its turn
agent_turns(g, team) == {<<>>} \cup full_turns(g, team, <<>>)

\* a variant that looks at is_game_over() at the end of a round only
after_turn_unchecked(m, g) ==
    IF m.team = 1
       THEN [m EXCEPT !.phase = "reset", !.team = 2]
       ELSE [m EXCEPT !.phase = IF is_game_over(g) THEN "done" ELSE "reset",
                      !.team = 1, !.t = @ + 1, !.turns_played = m.t + 1]

\* the match after the turn of m.team has left the game as g: "if
\* is_game_over(): turns_played = t + 1; return", then the other team's
\* turn or "turns_played = t + 1" and the next round
after_turn(m, g) ==
    IF is_game_over(g)
       THEN [m EXCEPT !.phase = "done", !.turns_played = m.t + 1]
    ELSE IF m.team = 1
       THEN [m EXCEPT !.phase = "reset", !.team = 2]
       ELSE [m EXCEPT !.phase = "reset", !.team = 1, !.t = @ + 1,
                      !.turns_played = m.t + 1]

InitMatch ==
    /\ gs \in MinimaxBoards
    /\ ag \in {[phase |-> "reset", kind |-> k, max_turns |-> n, t |-> 0,
                 team |-> 1, turns_played |-> 0, log |-> <<>>] :
                  k \in MatchKinds, n \in 1..MaxTurns}
    /\ stack = <<>>
    /\ last = [op |-> "init", ok |-> TRUE]
    /\ ended = [t \in Teams |-> NoCheck]
    /\ attacked = {}
    /\ exhausted = {}
    /\ plan = NoPlan
    /\ steps = 0
    /\ dq = NoDamageQuery
    /\ mcts = NoMcts
    /\ mm = NoMinimax
    /\ tr = NoTrainer

\* "for t in range(max_turns)" goes on: the turn reset of the team
MatchReset ==
    /\ ag.phase = "reset"
    /\ ag.t < ag.max_turns
    /\ gs' = turn_reset(ag.kind, gs, ag.team)
    /\ ag' = [ag EXCEPT
                !.phase = "act",
                !.log = Append(@, [op |-> "reset", team |-> ag.team,
                                   over |-> is_game_over(gs)])]
    /\ UNCHANGED <<stack, last, ended, attacked, exhausted, plan, steps, dq,
                   mcts, mm, tr>>

\* the agent of the team plays, then the match looks at is_game_over()
MatchAct ==
    /\ ag.phase = "act"
    /\ \E seq \in agent_turns(gs, ag.team) :
         LET turn_done(g) ==
               /\ gs' = g
               /\ ag' = after_turn(
                           [ag EXCEPT
                              !.log = Append(@, [op |-> "act",
                                                 team |-> ag.team,
                                                 over |-> is_game_over(gs)])],
                           g)
         IN  turn_done(apply_all(gs, seq, 1))
    /\ UNCHANGED <<stack, last, ended, attacked, exhausted, plan, steps, dq,
                   mcts, mm, tr>>

\* the loop has run max_turns rounds
MatchEnd ==
    /\ ag.phase = "reset"
    /\ ag.t >= ag.max_turns
    /\ ag' = [ag EXCEPT !.phase = "done"]
    /\ UNCHANGED <<gs, stack, last, ended, attacked, exhausted, plan, steps,
                   dq, mcts, mm, tr>>

NextMatch ==
    \/ MatchReset
    \/ MatchAct
    \/ MatchEnd

SpecMatch == InitMatch /\ [][NextMatch]_vars

\* C32 -- Match protocol: the calls of a match are reset 1, act 1, reset 2,
\* act 2, reset 1, ...: the teams act alternately starting with team 1 and
\* every agent turn comes right after the turn reset of the same team; no
\* call is made once the game is over; and the match stops after at most
\* max_turns rounds with turns_played <= max_turns.
C32_MatchProtocol ==
    ag.phase \in {"reset", "act", "done"} =>
      /\ \A i \in DOMAIN ag.log :
            /\ ag.log[i].op = (IF i % 2 = 1 THEN "reset" ELSE "act")
            /\ ag.log[i].team = (IF ((i - 1) \div 2) % 2 = 0 THEN 1 ELSE 2)
            /\ ~ag.log[i].over
      /\ Len(ag.log) <= 4 * ag.max_turns
      /\ ag.turns_played <= ag.max_turns
      /\ ag.t <= ag.max_turns

\* a match that team 1 ended in its second turn: team 2 was not asked again
C32_Witness ==
    /\ ag.phase = "done"
    /\ is_game_over(gs)
    /\ Len(ag.log) = 6
    /\ ag.log[6] = [op |-> "act", team |-> 1, over |-> FALSE]
    /\ ag.turns_played = 2

-----------------------------------------------------------------------------
(* Legal moves against the cheapest paths (SpecTurn) *)

\* a path may enter the tile: in bounds, no mountain, no unit
enterable(g, x, y) ==
    /\ in_bounds(g, x, y)
    /\ tile(g, x, y) # MOUNTAIN
    /\ get_unit_at(g, x, y) = None

board_tiles(g) == (0..(width(g) - 1)) \X (0..(height(g) - 1))

\* the price of the step from tile v onto its neighbour w
step_price(g, v, w) ==
    IF v[1] # w[1] /\ v[2] # w[2] THEN move_cost(g, w[1], w[2]) * SQRT2
    ELSE move_cost(g, w[1], w[2]) * Micro

neighbours(v, w) ==
    /\ v # w
    /\ Abs(v[1] - w[1]) <= 1
    /\ Abs(v[2] - w[2]) <= 1

MinOf(S) == CHOOSE m \in S : \A k \in S : m <= k

\* a table of prices is a set of pairs <<tile, price>>
price_in(table, v) == (CHOOSE p \in table : p[1] = v)[2]

\* the price of the cheapest path of at most n steps from start to every
\* tile, entering enterable tiles only (INF: there is none)
RECURSIVE cheapest_within(_, _, _)
cheapest_within(g, start, n) ==
    IF n = 0 THEN {<<v, IF v = start THEN 0 ELSE INF>> : v \in board_tiles(g)}
    ELSE UNION {
           { <<w, IF ~enterable(g, w[1], w[2]) THEN price_in(d, w)
                  ELSE MinOf({price_in(d, w)} \cup
                             {p[2] + step_price(g, p[1], w) :
                                p \in {p \in d : neighbours(p[1], w)
                                                    /\ p[2] < INF}})>> :
               w \in board_tiles(g) } :
           d \in {cheapest_within(g, start, n - 1)} }

\* the table of the cheapest paths of any length
cheapest_paths(g, start) ==
    cheapest_within(g, start, width(g) * height(g) - 1)

\* the tiles get_legal_actions(team of u) lists as moves of u
listed_moves(g, u) ==
    {act.target : act \in {a \in Range(get_legal_actions(g, g.heap[u].team)) :
                              a.unit_id = u /\ a.type = "move"}}

\* t is in bounds, empty and not a mountain, u has not attacked and the
\* cheapest path to t costs at most u's remaining move points
affordable(g, u, x, y, cheapest) ==
    /\ enterable(g, x, y)
    /\ ~g.heap[u].has_attacked
    /\ price_in(cheapest, <<x, y>>) <= g.heap[u].move_points

\* the statement for a set of units of the board
legal_moves_are_affordable(g, units) ==
    \A u \in units :
      \A cheapest \in {cheapest_paths(g, <<g.heap[u].x, g.heap[u].y>>)},
         listed \in {listed_moves(g, u)} :
        /\ \A x \in -1..width(g), y \in -1..height(g) :
              <<x, y>> \in listed <=> affordable(g, u, x, y, cheapest)
        /\ \A t \in board_tiles(g) :
              enterable(g, t[1], t[2]) =>
                 compute_min_cost_gs(g, <<g.heap[u].x, g.heap[u].y>>, t)
                    = price_in(cheapest, t)

\* C33 -- Legal moves are exactly the affordable reachable tiles: for a
\* unit u that has not yet acted, get_legal_actions(u's team) lists a move
\* of u to tile t exactly when t is in bounds, empty and not a mountain, u
\* has not attacked, and the cheapest 8-neighbour path from u to t avoiding
\* mountains and occupied tiles (a step costs the entered tile's move cost,
\* times sqrt(2) for a diagonal step) costs at most u's remaining move
\* points; compute_min_cost_gs returns that cheapest cost.
C33_LegalMovesOfActiveUnits ==
    last.op \in {"start_turn", "move", "attack", "wait", "over"} =>
      legal_moves_are_affordable(gs,
          {u \in Range(gs.units) : ~gs.heap[u].has_acted})

\* C33 as stated, for every unit on the board
C33_LegalMovesOfAllUnits ==
    last.op \in {"start_turn", "move", "attack", "wait", "over"} =>
      legal_moves_are_affordable(gs, Range(gs.units))

\* a unit that has moved along a diagonal still has a move listed and a
\* tile in bounds that it cannot afford
C33_Witness ==
    /\ last.op = "move"
    /\ \E u \in Range(gs.units) :
          /\ ~gs.heap[u].has_acted
          /\ gs.heap[u].move_points % Micro # 0
          /\ listed_moves(gs, u) # {}
          /\ \E t \in board_tiles(gs) \ listed_moves(gs, u) :
                enterable(gs, t[1], t[2])

-----------------------------------------------------------------------------
(* Result collection of one eval_genomes call (SpecTrainer) *)

RECURSIVE submitted_sum(_, _, _)
\* the float sum of what genome g earns in the first i matches of the
\* list, added in the order of the list
submitted_sum(t, g, i) ==
    IF i = 0 THEN 0
    ELSE LET m == t.matches[i]
             f == compute_fitness(t.table, m[1], m[2])
         IN  IF m[1] = g THEN float_add(submitted_sum(t, g, i - 1), f[1])
             ELSE IF m[2] = g
                     THEN float_add(submitted_sum(t, g, i - 1), f[2])
             ELSE submitted_sum(t, g, i - 1)

\* C34 -- Result collection is order-independent: after eval_genomes
\* returned, every match's result has been accumulated exactly once into
\* both participants' sums and counts, and every genome's fitness is the
\* one the match list determines (the one of the matches completing in the
\* order of their submission), whatever the order of completion was.
C34_OrderIndependentFitness ==
    tr.phase = "done" =>
      /\ \A i \in 1..Len(tr.matches) :
            Cardinality({r \in tr.results : r.idx = i}) = 1
      /\ \A g \in 1..tr.n :
            /\ tr.match_counts[g]
                  = Cardinality({i \in 1..Len(tr.matches) :
                                   g \in Range(tr.matches[i])})
            /\ tr.fitness[g]
                  = [num |-> submitted_sum(tr, g, Len(tr.matches)),
                     den |-> Max(1, tr.match_counts[g])]

-----------------------------------------------------------------------------
(* backend/board.py: GameState.add_units (SpecSetup).  A game is set up on *)
(* a board of SetupSize x SetupSize tiles from create_random_map, then     *)
(* add_units is called for the draft of team 1 and for the draft of team   *)
(* 2.  For the placement a map counts by its mountains alone (hills and    *)
(* water are passable like plains): the hilly map has none, the mixed map  *)
(* of this size one cluster, any part of a 2 x 2 block.  A draft spends    *)
(* STARTING_FUNDS on units of at least CheapestUnit each.                  *)

SetupSize == 8
STARTING_FUNDS == 100
CheapestUnit == 20

MaxDraft == STARTING_FUNDS \div CheapestUnit

Roster == <<"Swordsman", "Archer", "Spearman", "Horseman", "Swordsman">>

\* the maps of create_random_map(w, h), as far as mountains go
random_maps(w, h) ==
    {[y \in 1..h |-> [x \in 1..w |->
         IF <<x - 1 - m[1], y - 1 - m[2]>> \in part THEN MOUNTAIN
         ELSE PLAIN]] :
       m \in (0..(w - 2)) \X (0..(h - 2)),
       part \in SUBSET ((0..1) \X (0..1))}

\* a variant that looks at the terrain only
is_passable_terrain(g, x, y) ==
    /\ in_bounds(g, x, y)
    /\ TERRAIN_MOVE_COST(tile(g, x, y)) < 9999

is_passable(g, x, y) ==
    /\ in_bounds(g, x, y)
    /\ TERRAIN_MOVE_COST(tile(g, x, y)) < 9999
    /\ get_unit_at(g, x, y) = None

\* "for dy in range(-1, 3): for dx in range(-1, 3)": the first passable
\* tile of the window around (x, y), or (x, y) itself when there is none
spawn_tile(g, x, y) ==
    LET found == {k \in 0..15 :
                    is_passable(g, x + (k % 4) - 1, y + (k \div 4) - 1)}
    IN  IF found = {} THEN <<x, y>>
        ELSE LET k == CHOOSE j \in found : \A l \in found : j <= l
             IN  <<x + (k % 4) - 1, y + (k \div 4) - 1>>

\* "for i, name in enumerate(unit_name_list)" from the i-th name on, the
\* placement position being (x, y)
RECURSIVE add_units_from(_, _, _, _, _, _, _)
add_units_from(g, names, team_id, i, x, y, start_x) ==
    IF i > Len(names) THEN g
    ELSE LET spawned(t, id) ==
               add_units_from(
                 [g EXCEPT
                    !.units = Append(@, id),
                    !.heap = Append(@, new_unit(id, names[i], team_id,
                                                t[1], t[2],
                                                UNIT_STATS[names[i]].health))],
                 names, team_id, i + 1,
                 IF i % 3 = 0 THEN start_x ELSE t[1] + 2,
                 IF i % 3 = 0 THEN t[2] + 1 ELSE t[2],
                 start_x)
         IN  spawned(spawn_tile(g, x, y), Len(g.heap) + 1)

add_units(g, unit_name_list, team_id) ==
    IF team_id = 1
       THEN add_units_from(g, unit_name_list, team_id, 1,
                           1, height(g) - 4, 1)
       ELSE add_units_from(g, unit_name_list, team_id, 1,
                           width(g) - 6, 1, width(g) - 6)

InitSetup ==
    /\ gs \in {[tile_map |-> m, units |-> <<>>, heap |-> <<>>] :
                  m \in random_maps(SetupSize, SetupSize)}
    /\ last \in {[op |-> "create", ok |-> TRUE,
                   drafts |-> <<SubSeq(Roster, 1, n[1]),
                                SubSeq(Roster, 1, n[2])>>] :
                    n \in (1..MaxDraft) \X (1..MaxDraft)}
    /\ stack = <<>>
    /\ ended = [t \in Teams |-> NoCheck]
    /\ attacked = {}
    /\ exhausted = {}
    /\ plan = NoPlan
    /\ steps = 0
    /\ dq = NoDamageQuery
    /\ mcts = NoMcts
    /\ mm = NoMinimax
    /\ tr = NoTrainer
    /\ ag = NoAgent

\* add_units(team1_names, 1, ...)
AddTeam1 ==
    /\ last.op = "create"
    /\ gs' = add_units(gs, last.drafts[1], 1)
    /\ last' = [last EXCEPT !.op = "team1"]
    /\ UNCHANGED <<stack, ended, attacked, exhausted, plan, steps, dq, mcts,
                   mm, tr, ag>>

\* add_units(team2_names, 2, ...)
AddTeam2 ==
    /\ last.op = "team1"
    /\ gs' = add_units(gs, last.drafts[2], 2)
    /\ last' = [last EXCEPT !.op = "team2"]
    /\ UNCHANGED <<stack, ended, attacked, exhausted, plan, steps, dq, mcts,
                   mm, tr, ag>>

NextSetup ==
    \/ AddTeam1
    \/ AddTeam2

SpecSetup == InitSetup /\ [][NextSetup]_vars

-----------------------------------------------------------------------------
(* The end of the game (Spec) *)

\* an apply (of a move, an attack or a wait), a turn reset or a turn-end
\* check has just been made: Apply, RevApply, TurnBeginReset, PlanStart or
\* TurnCheckEnd, by the operation each of them records in last
GameStep == last'.op \in {"move", "attack", "wait", "reset", "plan", "check"}

\* C36 -- Game over is absorbing: no apply, turn reset or turn-end check
\* adds a unit to the board or raises a unit's health, so once
\* is_game_over() is true it stays true under these operations and
\* get_winner() keeps returning the same value, which is not None.
C36_GameOverAbsorbing ==
    [][GameStep =>
         /\ Range(gs'.units) \subseteq Range(gs.units)
         /\ \A u \in Range(gs'.units) :
               gs'.heap[u].health <= gs.heap[u].health
         /\ is_game_over(gs) =>
               /\ is_game_over(gs')
               /\ get_winner(gs') = get_winner(gs)
               /\ get_winner(gs) # Ongoing]_vars

\* team 1 has won and a turn of it was started and checked after that
C36_Witness ==
    /\ ~plan.active
    /\ is_game_over(gs)
    /\ get_winner(gs) = 1
    /\ last.op = "check"
    /\ \E u \in Range(gs.units) :
          gs.heap[u].health < UNIT_STATS[gs.heap[u].name].health

\* ---------------------------------------------------------------------------
\* Round-robin benchmark (src/src/ai/statistics/benchmark_round_robin.py).
\* The benchmark is held in ag: the agents it was constructed with (their
\* names; build_agents names an agent by its preset, or by its type when the
\* type has no presets, and the command line accepts a type more than once),
\* the worker count, the submitted match list, the indices of the completed
\* futures in completion order, the collected results and the summary.
\* ---------------------------------------------------------------------------
MaxAgents == 3
BenchWorkers == 2
AgentNames == {"NEATAgent", "Minimax_default", "MCTS_default"}

\* sim.get_winner() at the end of a match: team 1, team 2, or None when
\* max_turns ran out with both teams alive (a draw, 0, needs both teams empty,
\* which a match that starts with units on both sides does not reach: units
\* are removed one at a time and never by their own team)
MatchWinners == {1, 2, Ongoing}

\* _build_match_list: for i, A / for j, B / skip i == j / append, in that order
RECURSIVE build_match_list_from(_, _, _)
build_match_list_from(agents, i, j) ==
    IF i > Len(agents) THEN <<>>
    ELSE IF j > Len(agents) THEN build_match_list_from(agents, i + 1, 1)
    ELSE IF i = j THEN build_match_list_from(agents, i, j + 1)
    ELSE <<[i |-> i, j |-> j, agentA |-> agents[i], agentB |-> agents[j]]>>
             \o build_match_list_from(agents, i, j + 1)

build_match_list(agents) == build_match_list_from(agents, 1, 1)

\* table.setdefault(name, {"wins": 0, "games": 0})
setdefault(table, name) ==
    IF name \in DOMAIN table THEN table
    ELSE table @@ (name :> [wins |-> 0, games |-> 0])

\* the body of summarize's loop for one result r
tally(table, r) ==
    LET t0 == setdefault(setdefault(table, r.agentA), r.agentB)
        t1 == [t0 EXCEPT ![r.agentA].games = @ + 1]
        t2 == [t1 EXCEPT ![r.agentB].games = @ + 1]
    IN  IF r.winner = 1 THEN [t2 EXCEPT ![r.agentA].wins = @ + 1]
        ELSE IF r.winner = 2 THEN [t2 EXCEPT ![r.agentB].wins = @ + 1]
        ELSE t2

RECURSIVE tally_all(_, _, _)
tally_all(table, results, k) ==
    IF k > Len(results) THEN table
    ELSE CHOOSE r \in {tally_all(t, results, k + 1) :
                          t \in {tally(table, results[k])}} : TRUE

\* summarize(results): the win rate wins / max(1, games) is kept as the exact
\* fraction <<wins, max(1, games)>>
summarize(results) ==
    LET table == tally_all(<<>>, results, 1)
    IN  [agent \in DOMAIN table |->
            [winrate |-> <<table[agent].wins,
                           IF table[agent].games > 1 THEN table[agent].games
                           ELSE 1>>,
             games |-> table[agent].games]]

InitRoundRobin ==
    /\ ag \in {[phase |-> "built", agents |-> a, workers |-> w,
                match_list |-> <<>>, done |-> <<>>, results |-> <<>>,
                summary |-> <<>>] :
                  a \in UNION {[1..n -> AgentNames] : n \in 2..MaxAgents},
                  w \in 1..BenchWorkers}
    /\ gs = SomeBoard
    /\ last = [op |-> "bench", ok |-> TRUE]
    /\ stack = <<>>
    /\ ended = [t \in Teams |-> NoCheck]
    /\ attacked = {}
    /\ exhausted = {}
    /\ plan = NoPlan
    /\ steps = 0
    /\ dq = NoDamageQuery
    /\ mcts = NoMcts
    /\ mm = NoMinimax
    /\ tr = NoTrainer

\* run(): match_list = self._build_match_list(); every match is submitted
BenchSubmit ==
    /\ ag.phase = "built"
    /\ ag' = [ag EXCEPT !.phase = "running",
                        !.match_list = build_match_list(ag.agents)]
    /\ UNCHANGED <<gs, stack, last, ended, attacked, exhausted, plan, steps,
                   dq, mcts, mm, tr>>

\* the futures the pool's workers are running: the first `workers` submitted
\* ones that have not completed
bench_running(b) ==
    LET open == {k \in 1..Len(b.match_list) : k \notin Range(b.done)}
    IN  {k \in open : Cardinality({o \in open : o < k}) < b.workers}

\* for f in as_completed(futures): results.append(f.result()), where the
\* worker returns the two names and sim.get_winner()
BenchCollect ==
    /\ ag.phase = "running"
    /\ \E k \in bench_running(ag), w \in MatchWinners :
          ag' = [ag EXCEPT !.done = Append(@, k),
                           !.results = Append(@,
                               [agentA |-> ag.match_list[k].agentA,
                                agentB |-> ag.match_list[k].agentB,
                                winner |-> w])]
    /\ UNCHANGED <<gs, stack, last, ended, attacked, exhausted, plan, steps,
                   dq, mcts, mm, tr>>

\* summary = bench.summarize(results), once every future has completed
BenchSummarize ==
    /\ ag.phase = "running"
    /\ Len(ag.done) = Len(ag.match_list)
    /\ ag' = [ag EXCEPT !.phase = "summarized",
                        !.summary = summarize(ag.results)]
    /\ UNCHANGED <<gs, stack, last, ended, attacked, exhausted, plan, steps,
                   dq, mcts, mm, tr>>

NextRoundRobin == BenchSubmit \/ BenchCollect \/ BenchSummarize

SpecRoundRobin == InitRoundRobin /\ [][NextRoundRobin]_vars

\* the matches of agent a (an index of the agents list) among the completed
\* ones, as positions of the results list
games_of(b, a) ==
    {r \in 1..Len(b.results) :
        a \in {b.match_list[b.done[r]].i, b.match_list[b.done[r]].j}}

wins_of(b, a) ==
    {r \in 1..Len(b.results) :
        \/ b.match_list[b.done[r]].i = a /\ b.results[r].winner = 1
        \/ b.match_list[b.done[r]].j = a /\ b.results[r].winner = 2}

\* C37: the match list holds exactly one match for every ordered pair of
\* distinct agents (A as team 1, B as team 2) and none of an agent against
\* itself; the summary gives every agent as many games as it played matches,
\* as many wins as matches it won (as team 1 when the winner is team 1, as
\* team 2 when the winner is team 2, none for a draw or an undecided match),
\* and the win rate wins / games.
C37_RoundRobinAccounting ==
    /\ ag.phase \in {"running", "summarized"} =>
          /\ \A i, j \in 1..Len(ag.agents) :
                Cardinality({k \in 1..Len(ag.match_list) :
                                /\ ag.match_list[k].i = i
                                /\ ag.match_list[k].j = j})
                   = IF i = j THEN 0 ELSE 1
          /\ \A k \in 1..Len(ag.match_list) :
                /\ ag.match_list[k].agentA = ag.agents[ag.match_list[k].i]
                /\ ag.match_list[k].agentB = ag.agents[ag.match_list[k].j]
    /\ ag.phase = "summarized" =>
          \A a \in 1..Len(ag.agents) :
             /\ ag.agents[a] \in DOMAIN ag.summary
             /\ ag.summary[ag.agents[a]].games = Cardinality(games_of(ag, a))
             /\ ag.summary[ag.agents[a]].winrate =
                   <<Cardinality(wins_of(ag, a)), Cardinality(games_of(ag, a))>>


=============================================================================
